---- MODULE Spec2Model ----
(***************************************************************************)
(* Model of the batch pipeline of src/lib/processor.ts (CSVProcessor) and  *)
(* of the external-call wrapper of src/lib/qbo-service.ts (QBOService).    *)
(*                                                                         *)
(* Strings are sequences of symbols.  A symbol is either the blank " " or  *)
(* a non-blank token: a single character where the code looks at           *)
(* characters (currency codes, amounts), a whole word elsewhere.           *)
(* The empty sequence << >> is the empty string.                           *)
(***************************************************************************)
EXTENDS Integers, Sequences, FiniteSets, TLC

(***************************************************************************)
(* Bounds of the model.                                                    *)
(***************************************************************************)
MaxRows == 2
MaxRuns == 2
MaxFaultyCalls == 1

(***************************************************************************)
(* String helpers (String.prototype.trim, split, filter).                  *)
(***************************************************************************)
RECURSIVE TrimLeft(_)
TrimLeft(s) ==
  IF s = << >> THEN << >>
  ELSE IF Head(s) = " " THEN TrimLeft(Tail(s)) ELSE s

RECURSIVE TrimRight(_)
TrimRight(s) ==
  IF s = << >> THEN << >>
  ELSE IF s[Len(s)] = " " THEN TrimRight(SubSeq(s, 1, Len(s) - 1)) ELSE s

Trim(s) == TrimRight(TrimLeft(s))

\* !s?.trim() : the string is empty or blank
Blank(s) == Trim(s) = << >>

\* s.split(";") : the pieces between semicolons (always at least one piece)
RECURSIVE Split(_)
Split(s) ==
  IF \A i \in 1..Len(s) : s[i] # ";" THEN << s >>
  ELSE LET k == CHOOSE i \in 1..Len(s) :
                  s[i] = ";" /\ \A j \in 1..(i - 1) : s[j] # ";"
       IN << SubSeq(s, 1, k - 1) >> \o Split(SubSeq(s, k + 1, Len(s)))

\* .filter((f) => f.trim())
RECURSIVE FilterNonBlank(_)
FilterNonBlank(seq) ==
  IF seq = << >> THEN << >>
  ELSE (IF Blank(Head(seq)) THEN << >> ELSE << Head(seq) >>)
         \o FilterNonBlank(Tail(seq))

\* new Set<string>() filled with add(): insertion order, no duplicates
RECURSIVE AddAll(_, _)
AddAll(set, items) ==
  IF items = << >> THEN set
  ELSE AddAll(IF \E i \in 1..Len(set) : set[i] = Head(items)
                THEN set ELSE Append(set, Head(items)),
              Tail(items))

RECURSIVE MapTrim(_)
MapTrim(seq) ==
  IF seq = << >> THEN << >> ELSE << Trim(Head(seq)) >> \o MapTrim(Tail(seq))

Range(f) == { f[i] : i \in DOMAIN f }

(***************************************************************************)
(* src/lib/utils.ts                                                        *)
(***************************************************************************)
Digits == << "0", "1", "2", "3", "4", "5", "6", "7", "8", "9" >>
IsDigit(c) == \E d \in 1..10 : Digits[d] = c
DigitVal(c) == (CHOOSE d \in 1..10 : Digits[d] = c) - 1

\* the strings of the model for which `new Date(str)` is a valid date
NativeDates == { << "2024-01-01" >>, << "2024-01-02" >> }
\* /^(\d{1,2})\/(\d{1,2})\/(\d{4})$/ and /^(\d{4})-(\d{1,2})-(\d{1,2})$/
FormatDates == { << "25/12/2024" >>, << "2024-01-01" >>, << "2024-01-02" >> }

Null == [null |-> TRUE]

parseDate(dateStr, strict) ==
  IF dateStr = << >> THEN Null
  ELSE IF dateStr \in NativeDates THEN [date |-> dateStr, by |-> "native"]
  ELSE IF strict THEN Null
  ELSE IF dateStr \in FormatDates THEN [date |-> dateStr, by |-> "parts"]
  ELSE Null

\* amountStr.replace(/[$,]/g, '')
RECURSIVE StripMoney(_)
StripMoney(s) ==
  IF s = << >> THEN << >>
  ELSE (IF Head(s) \in { "$", "," } THEN << >> ELSE << Head(s) >>)
         \o StripMoney(Tail(s))

\* value of a run of leading digits
RECURSIVE DigitsValue(_, _)
DigitsValue(s, acc) ==
  IF s = << >> \/ ~IsDigit(Head(s)) THEN acc
  ELSE DigitsValue(Tail(s), 10 * acc + DigitVal(Head(s)))

NaN == [nan |-> TRUE]
Num(n) == [num |-> n]

\* parseFloat on integral literals: optional sign, then the longest digit
\* prefix; NaN when there is no digit
parseFloat(s) ==
  LET t    == TrimLeft(s)
      neg  == t # << >> /\ Head(t) = "-"
      body == IF t # << >> /\ Head(t) \in { "-", "+" } THEN Tail(t) ELSE t
  IN IF body = << >> \/ ~IsDigit(Head(body)) THEN NaN
     ELSE IF neg THEN Num(0 - DigitsValue(body, 0))
     ELSE Num(DigitsValue(body, 0))

validateAmount(amountStr) ==
  IF amountStr = << >> THEN Null
  ELSE LET cleaned == Trim(StripMoney(amountStr))
           amount  == parseFloat(cleaned)
       IN IF amount = NaN THEN Null
          ELSE IF amount.num < 0 THEN Null ELSE amount

(***************************************************************************)
(* Inputs: rows (CSVRow), settings (ProcessingSettings), uploaded files.   *)
(***************************************************************************)
EmptyRow ==
  [BillNumber |-> << >>, Location |-> << >>, ProjectName |-> << " " >>,
   CustomerName |-> << >>, VendorName |-> << >>, BillDate |-> << >>,
   BillLineDescription |-> << >>, BillLineAmount |-> << >>,
   Currency |-> << >>, InvoiceDate |-> << >>, PONumber |-> << >>,
   PointOfContact |-> << >>, AttachmentFiles |-> << >>, Category |-> << >>]

\* a valid line of bill B1
RowA ==
  [EmptyRow EXCEPT !.BillNumber = << "B1" >>, !.ProjectName = << "Proj" >>,
     !.CustomerName = << "Acme" >>, !.VendorName = << "Bob" >>,
     !.BillDate = << "2024-01-01" >>, !.BillLineDescription = << "desc" >>,
     !.BillLineAmount = << "1", "0", "0" >>,
     !.InvoiceDate = << "2024-01-02" >>]

\* a second line of bill B1: padded bill number, another project, a bill
\* date that only the lenient parser accepts, a class that exists and a
\* department that does not
RowAPad ==
  [RowA EXCEPT !.BillNumber = << " ", "B1", " " >>,
     !.ProjectName = << "Proj2" >>, !.BillDate = << "25/12/2024" >>,
     !.BillLineAmount = << "$", "1", ",", "0", "0", "0" >>,
     !.Category = << "Ops" >>, !.Location = << "LA" >>]

\* a valid line of bill B2 with another vendor, a department that exists,
\* a class that does not, a currency and three files
RowC ==
  [RowA EXCEPT !.BillNumber = << "B2" >>, !.VendorName = << "Carl" >>,
     !.Location = << "HQ" >>, !.Category = << "Fin" >>,
     !.Currency = << "E", "U", "R" >>, !.PONumber = << "PO7" >>,
     !.AttachmentFiles = << "a.pdf", ";", " ", "b.pdf", ";", "c.pdf", ";",
                            " " >>]

\* a non-empty row without bill number
RowNoBill == [RowA EXCEPT !.BillNumber = << " " >>]

RowPool == { RowA, RowAPad, RowC, RowNoBill, EmptyRow }

Batches == UNION { [1..n -> RowPool] : n \in 1..MaxRows }

LenientSettings ==
  [autoCreate |-> TRUE, alsoAttachToInvoice |-> TRUE,
   defaultCurrency |-> << "U", "S", "D" >>, strictDateParsing |-> FALSE]

StrictSettings ==
  [autoCreate |-> FALSE, alsoAttachToInvoice |-> FALSE,
   defaultCurrency |-> << "U", "S", "D" >>, strictDateParsing |-> TRUE]

\* lenient settings that do not attach the files to the Invoice
BillOnlySettings == [LenientSettings EXCEPT !.alsoAttachToInvoice = FALSE]

\* the filename -> payload map handed to processAll
Uploads == { << "a.pdf" >>, << "c.pdf" >> }

(***************************************************************************)
(* src/lib/processor.ts : isEmptyRow, validateRow                          *)
(***************************************************************************)
isEmptyRow(row) ==
  /\ Blank(row.BillNumber)
  /\ Blank(row.ProjectName)
  /\ Blank(row.CustomerName)
  /\ Blank(row.VendorName)
  /\ Blank(row.BillDate)
  /\ Blank(row.BillLineDescription)
  /\ Blank(row.BillLineAmount)
  /\ Blank(row.Category)
  /\ Blank(row.InvoiceDate)
  /\ Blank(row.PONumber)
  /\ Blank(row.PointOfContact)

Upper == { "A", "D", "E", "R", "S", "U" }

\* a test of the currency against /[A-Z]*/ instead of /^[A-Z]{3}$/
IsCurrencyCode_AnyLength(c) == \A i \in 1..Len(c) : c[i] \in Upper

\* /^[A-Z]{3}$/.test(currency)
IsCurrencyCode(c) == Len(c) = 3 /\ \A i \in 1..3 : c[i] \in Upper

\* a || b on strings
OrElse(a, b) == IF a # << >> THEN a ELSE b

VErr(rowIndex, field, message) ==
  [row |-> rowIndex, field |-> field, message |-> message]

validateRow(st, row, rowIndex) ==
  IF isEmptyRow(row) THEN << >>
  ELSE
    (IF Blank(row.BillNumber)
       THEN << VErr(rowIndex, "BillNumber", "Bill number is required") >>
       ELSE << >>)
    \o (IF Blank(row.ProjectName)
       THEN << VErr(rowIndex, "ProjectName", "Project name is required") >>
       ELSE << >>)
    \o (IF Blank(row.CustomerName)
       THEN << VErr(rowIndex, "CustomerName", "Customer name is required") >>
       ELSE << >>)
    \o (IF Blank(row.VendorName)
       THEN << VErr(rowIndex, "VendorName", "Vendor name is required") >>
       ELSE << >>)
    \o (IF parseDate(row.BillDate, st.strictDateParsing) = Null
       THEN << VErr(rowIndex, "BillDate", "Invalid bill date format") >>
       ELSE << >>)
    \o (IF parseDate(row.InvoiceDate, st.strictDateParsing) = Null
       THEN << VErr(rowIndex, "InvoiceDate", "Invalid invoice date format") >>
       ELSE << >>)
    \o (IF validateAmount(row.BillLineAmount) = Null
       THEN << VErr(rowIndex, "BillLineAmount", "Invalid amount format") >>
       ELSE << >>)
    \o (IF ~IsCurrencyCode(OrElse(Trim(row.Currency), st.defaultCurrency))
       THEN << VErr(rowIndex, "Currency",
                    "Invalid currency code (must be 3-letter ISO code)") >>
       ELSE << >>)

\* a grouping loop that puts a bill number seen for the first time in front
\* of the groups found so far
RECURSIVE groupLoop_NewestFirst(_, _, _)
groupLoop_NewestFirst(rows, i, billGroups) ==
  IF i >= Len(rows) THEN billGroups
  ELSE
    LET row        == rows[i + 1]
        billNumber == Trim(row.BillNumber)
    IN IF isEmptyRow(row) \/ billNumber = << >>
         THEN groupLoop_NewestFirst(rows, i + 1, billGroups)
       ELSE IF \E g \in 1..Len(billGroups) :
                   billGroups[g].billNumber = billNumber
         THEN LET g == CHOOSE g \in 1..Len(billGroups) :
                         billGroups[g].billNumber = billNumber
              IN groupLoop_NewestFirst(rows, i + 1,
                   [billGroups EXCEPT ![g].rows = Append(@, row),
                                      ![g].indices = Append(@, i)])
       ELSE groupLoop_NewestFirst(rows, i + 1,
              << [billNumber |-> billNumber,
                  rows |-> << row >>, indices |-> << i >>] >>
              \o billGroups)

(***************************************************************************)
(* Grouping loop shared by dryRun and processAll: the Map billGroups, in   *)
(* insertion order, keyed by the trimmed bill number.  Row indices are     *)
(* 0-based as in the code; rows[i + 1] is the code's rows[i].              *)
(***************************************************************************)
\* the grouping loop keyed by the bill number as typed, not trimmed
RECURSIVE groupLoop_RawKey(_, _, _)
groupLoop_RawKey(rows, i, billGroups) ==
  IF i >= Len(rows) THEN billGroups
  ELSE
    LET row        == rows[i + 1]
        billNumber == row.BillNumber
    IN IF isEmptyRow(row) \/ Trim(billNumber) = << >>
         THEN groupLoop_RawKey(rows, i + 1, billGroups)
       ELSE IF \E g \in 1..Len(billGroups) :
                   billGroups[g].billNumber = billNumber
         THEN LET g == CHOOSE g \in 1..Len(billGroups) :
                         billGroups[g].billNumber = billNumber
              IN groupLoop_RawKey(rows, i + 1,
                   [billGroups EXCEPT ![g].rows = Append(@, row),
                                      ![g].indices = Append(@, i)])
       ELSE groupLoop_RawKey(rows, i + 1,
              Append(billGroups, [billNumber |-> billNumber,
                                  rows |-> << row >>, indices |-> << i >>]))

RECURSIVE groupLoop(_, _, _)
groupLoop(rows, i, billGroups) ==
  IF i >= Len(rows) THEN billGroups
  ELSE
    LET row        == rows[i + 1]
        billNumber == Trim(row.BillNumber)
    IN IF isEmptyRow(row) \/ billNumber = << >>
         THEN groupLoop(rows, i + 1, billGroups)
       ELSE IF \E g \in 1..Len(billGroups) :
                   billGroups[g].billNumber = billNumber
         THEN LET g == CHOOSE g \in 1..Len(billGroups) :
                         billGroups[g].billNumber = billNumber
              IN groupLoop(rows, i + 1,
                   [billGroups EXCEPT ![g].rows = Append(@, row),
                                      ![g].indices = Append(@, i)])
       ELSE groupLoop(rows, i + 1,
              Append(billGroups, [billNumber |-> billNumber,
                                  rows |-> << row >>, indices |-> << i >>]))

billGroupsOf(rows) == groupLoop(rows, 0, << >>)

\* the attachment names of a group collected in an array instead of a Set:
\* a name given by two rows stands twice
RECURSIVE allFileNamesOf_NoDedup(_)
allFileNamesOf_NoDedup(rows) ==
  IF rows = << >> THEN << >>
  ELSE allFileNamesOf_NoDedup(SubSeq(rows, 1, Len(rows) - 1))
       \o MapTrim(FilterNonBlank(Split(rows[Len(rows)].AttachmentFiles)))

\* all attachment names of a group: split, drop blanks, trim, deduplicate
RECURSIVE allFileNamesOf(_)
allFileNamesOf(rows) ==
  IF rows = << >> THEN << >>
  ELSE AddAll(allFileNamesOf(SubSeq(rows, 1, Len(rows) - 1)),
              MapTrim(FilterNonBlank(Split(rows[Len(rows)].AttachmentFiles))))

(***************************************************************************)
(* src/lib/processor.ts : dryRun.  It has no await: one atomic step.       *)
(***************************************************************************)
\* dryRun's first loop without the report of a row that has no bill number
dryLoopResults_Silent(rows, i) == << >>

\* results pushed by the grouping loop of dryRun (rows without bill number)
RECURSIVE dryLoopResults(_, _)
dryLoopResults(rows, i) ==
  IF i >= Len(rows) THEN << >>
  ELSE (IF ~isEmptyRow(rows[i + 1]) /\ Trim(rows[i + 1].BillNumber) = << >>
          THEN << [rowIndex |-> i, actions |-> << >>, warnings |-> << >>,
                   errors |-> << [text |-> "BillNumber is required"] >>] >>
          ELSE << >>)
       \o dryLoopResults(rows, i + 1)

\* `Row ${indices[i] + 1}: ${e.field}: ${e.message}` for every error of
\* every row of the group
RECURSIVE dryGroupErrors(_, _, _)
dryGroupErrors(st, group, i) ==
  IF i > Len(group.rows) THEN << >>
  ELSE LET errors == validateRow(st, group.rows[i], group.indices[i])
       IN [k \in 1..Len(errors) |->
             [row |-> group.indices[i] + 1, field |-> errors[k].field,
              message |-> errors[k].message]]
          \o dryGroupErrors(st, group, i + 1)

dryLineActions(st, group) ==
  [i \in 1..Len(group.rows) |->
     [act |-> "Line", n |-> i, project |-> group.rows[i].ProjectName,
      amount |-> group.rows[i].BillLineAmount,
      currency |-> OrElse(group.rows[i].Currency, st.defaultCurrency),
      description |-> group.rows[i].BillLineDescription]]

dryGroupActions(st, group) ==
  LET firstRow       == group.rows[1]
      allAttachments == allFileNamesOf(group.rows)
  IN << [act |-> "Create Bill", bill |-> group.billNumber,
         lines |-> Len(group.rows)],
        [act |-> "Find or create Customer", name |-> firstRow.CustomerName],
        [act |-> "Find or create Vendor", name |-> firstRow.VendorName] >>
     \o (IF ~Blank(firstRow.Location)
           THEN << [act |-> "Find Department/Location",
                    name |-> firstRow.Location] >>
           ELSE << >>)
     \o dryLineActions(st, group)
     \o (IF Len(allAttachments) > 0
           THEN << [act |-> "Attach files to Bill",
                    count |-> Len(allAttachments),
                    files |-> allAttachments] >>
                \o (IF st.alsoAttachToInvoice
                      THEN << [act |-> "Also attach files to Invoice"] >>
                      ELSE << >>)
           ELSE << >>)
     \o << [act |-> "Create Invoice from billable expenses"] >>
     \o (IF ~Blank(firstRow.PONumber)
           THEN << [act |-> "Set PO Number", po |-> firstRow.PONumber] >>
           ELSE << >>)
     \o (IF ~Blank(firstRow.PointOfContact)
           THEN << [act |-> "Set Point of Contact",
                    name |-> firstRow.PointOfContact] >>
           ELSE << >>)

\* a dry run that reports the validation errors on the failing row only
dryGroupResults_PerRow(st, group) ==
  [k \in 1..Len(group.indices) |->
     [rowIndex |-> group.indices[k], actions |-> << >>, warnings |-> << >>,
      errors |-> validateRow(st, group.rows[k], group.indices[k])]]

dryGroupResults(st, group) ==
  LET allErrors == dryGroupErrors(st, group, 1)
  IN [k \in 1..Len(group.indices) |->
        IF Len(allErrors) > 0
          THEN [rowIndex |-> group.indices[k], actions |-> << >>,
                warnings |-> << >>, errors |-> allErrors]
          ELSE [rowIndex |-> group.indices[k],
                actions |-> dryGroupActions(st, group),
                warnings |-> << >>, errors |-> << >>]]

RECURSIVE dryGroupsResults(_, _, _)
dryGroupsResults(st, billGroups, g) ==
  IF g > Len(billGroups) THEN << >>
  ELSE dryGroupResults(st, billGroups[g])
         \o dryGroupsResults(st, billGroups, g + 1)

dryRun(st, rows) ==
  dryLoopResults(rows, 0) \o dryGroupsResults(st, billGroupsOf(rows), 1)

(***************************************************************************)
(* The external accounting system behind QBOService, and its faults.       *)
(***************************************************************************)
Undefined == [undefined |-> TRUE]

\* a thrown fault object { fault: { error: [ { code, message, detail } ] } }
Fault(code, message, detail) ==
  [code |-> code, message |-> message, detail |-> detail]

RateLimitFault == Fault("3200", "Rate limited", "")
NotFoundFault  == Fault("500", "", "Not found")
OtherFault     == Fault("6000", "Business validation error", "")

\* what the external system answers to one attempt of an operation
\* the answer of an attempt that succeeds
OkAnswer       == [code |-> "ok", message |-> "", detail |-> ""]

Outcomes == { OkAnswer, RateLimitFault, NotFoundFault, OtherFault }

EmptyQbo ==
  [customers |-> << >>, vendors |-> << >>, departments |-> << >>,
   classes |-> << >>, bills |-> << >>, invoices |-> << >>,
   attachables |-> << >>]

Id(type, n) == [type |-> type, n |-> n]

\* an external system that only knows a department and a class
FreshQbo ==
  [EmptyQbo EXCEPT
     !.departments = << [Id |-> Id("Department", 1), Name |-> << "HQ" >>] >>,
     !.classes = << [Id |-> Id("Class", 1), Name |-> << "Ops" >>] >>]

\* an external system that knows customer Acme, vendor Bob and the class
SeededQbo ==
  [EmptyQbo EXCEPT
     !.customers = << [Id |-> Id("Customer", 1),
                       DisplayName |-> << "Acme" >>,
                       ParentRef |-> Undefined, Job |-> FALSE] >>,
     !.vendors = << [Id |-> Id("Vendor", 1), DisplayName |-> << "Bob" >>] >>,
     !.classes = << [Id |-> Id("Class", 1), Name |-> << "Ops" >>] >>]

\* the settings of the processor and the external system it starts against
Worlds ==
  { [settings |-> LenientSettings, qbo |-> FreshQbo],
    [settings |-> BillOnlySettings, qbo |-> FreshQbo],
    [settings |-> StrictSettings, qbo |-> SeededQbo] }

\* QueryResponse.X?.[0] || null for the query `field = value`
FirstByName(list, name) ==
  IF \E i \in 1..Len(list) : list[i].DisplayName = name
    THEN list[CHOOSE i \in 1..Len(list) :
                /\ list[i].DisplayName = name
                /\ \A j \in 1..(i - 1) : list[j].DisplayName # name]
    ELSE Null

FirstNamed(list, name) ==
  IF \E i \in 1..Len(list) : list[i].Name = name
    THEN list[CHOOSE i \in 1..Len(list) :
                /\ list[i].Name = name
                /\ \A j \in 1..(i - 1) : list[j].Name # name]
    ELSE Null

(***************************************************************************)
(* src/lib/qbo-service.ts : retryWithBackoff and the wrapped operations.   *)
(* One attempt of a call is one step; `outcome` is the answer the external *)
(* system gives to that attempt.                                           *)
(***************************************************************************)
maxRetries == 3
baseDelay == 1000

FindOps == { "findCustomerByName", "findVendorByName",
             "findDepartmentByName", "findClassByName" }

\* find operations that reject fault code "500" like every other fault
operation_Rejects500(op, outcome) ==
  IF outcome.code = "ok"
    THEN [rejected |-> FALSE, null500 |-> FALSE, error |-> Undefined]
  ELSE [rejected |-> TRUE, null500 |-> FALSE, error |-> outcome]

\* one run of the `operation` closure: find operations resolve null on
\* fault code "500", every other fault is rejected
operation(op, outcome) ==
  IF outcome.code = "ok"
    THEN [rejected |-> FALSE, null500 |-> FALSE, error |-> Undefined]
  ELSE IF op \in FindOps /\ outcome.code = "500"
    THEN [rejected |-> FALSE, null500 |-> TRUE, error |-> Undefined]
  ELSE [rejected |-> TRUE, null500 |-> FALSE, error |-> outcome]

\* a retry that allows one attempt too many
retryWithBackoff_OneMore(op, outcome, retryCount) ==
  LET r == operation(op, outcome)
  IN IF ~r.rejected
       THEN [kind |-> "resolved", null500 |-> r.null500,
             error |-> Undefined, delay |-> 0]
     ELSE IF r.error.code = "3200" /\ retryCount <= maxRetries
       THEN [kind |-> "retry", null500 |-> FALSE, error |-> Undefined,
             delay |-> baseDelay * (2 ^ retryCount)]
     ELSE [kind |-> "thrown", null500 |-> FALSE, error |-> r.error,
           delay |-> 0]

\* a retry that does not look at the fault code
retryWithBackoff_RetryAny(op, outcome, retryCount) ==
  LET r == operation(op, outcome)
  IN IF ~r.rejected
       THEN [kind |-> "resolved", null500 |-> r.null500,
             error |-> Undefined, delay |-> 0]
     ELSE IF retryCount < maxRetries
       THEN [kind |-> "retry", null500 |-> FALSE, error |-> Undefined,
             delay |-> baseDelay * (2 ^ retryCount)]
     ELSE [kind |-> "thrown", null500 |-> FALSE, error |-> r.error,
           delay |-> 0]

\* one level of retryWithBackoff(operation, retryCount): the attempt, then
\* either the result, or the sleep before the recursive call, or the throw
retryWithBackoff(op, outcome, retryCount) ==
  LET r == operation(op, outcome)
  IN IF ~r.rejected
       THEN [kind |-> "resolved", null500 |-> r.null500,
             error |-> Undefined, delay |-> 0]
     ELSE IF r.error.code = "3200" /\ retryCount < maxRetries
       THEN [kind |-> "retry", null500 |-> FALSE, error |-> Undefined,
             delay |-> baseDelay * (2 ^ retryCount)]
     ELSE [kind |-> "thrown", null500 |-> FALSE, error |-> r.error,
           delay |-> 0]

(***************************************************************************)
(* src/lib/processor.ts : results of processAll / processBillGroup         *)
(***************************************************************************)
BaseResult ==
  [status |-> "", customerId |-> Undefined, subCustomerId |-> Undefined,
   vendorId |-> Undefined, billId |-> Undefined, invoiceId |-> Undefined,
   attachmentResults |-> Undefined, error |-> Undefined,
   message |-> Undefined, idempotencyKey |-> Undefined]

WithIndex(billResult, i) ==
  [rowIndex |-> i, status |-> billResult.status,
   customerId |-> billResult.customerId,
   subCustomerId |-> billResult.subCustomerId,
   vendorId |-> billResult.vendorId, billId |-> billResult.billId,
   invoiceId |-> billResult.invoiceId,
   attachmentResults |-> billResult.attachmentResults,
   error |-> billResult.error, message |-> billResult.message,
   idempotencyKey |-> billResult.idempotencyKey]

\* `bill_${billNumber}`
KeyOf(billNumber) == << "bill_" >> \o billNumber

\* A value caught by processBillGroup, by what the catch block reads of it:
\* message is error.message, string is the value itself when it is a
\* string, entry is error.fault.error[0], str is error.toString() and json
\* is JSON.stringify(error).  "" stands for an absent or empty text and
\* Undefined for an absent entry.
\* the fault object { fault: { error: [ entry ] } } rejected by a call: a
\* plain object without a message of its own
faultObject(entry) ==
  [message |-> "", string |-> "", entry |-> entry,
   str |-> "[object Object]", json |-> "{\"fault\":{\"error\":[...]}}"]

\* a catch block that looks at the fault entry before the message
extractMessage_EntryFirst(error) ==
  IF error.entry # Undefined
    THEN (IF error.entry.message # "" THEN error.entry.message
          ELSE error.entry.detail)
  ELSE IF error.message # "" THEN error.message
  ELSE IF error.string # "" THEN error.string
  ELSE IF error.str # "[object Object]" THEN error.str
  ELSE error.json

\* the catch block of processBillGroup: the text extracted from the value
\* caught
extractMessage(error) ==
  IF error.message # "" THEN error.message
  ELSE IF error.string # "" THEN error.string
  ELSE IF error.entry # Undefined
    THEN (IF error.entry.message # "" THEN error.entry.message
          ELSE error.entry.detail)
  ELSE IF error.str # "[object Object]" THEN error.str
  ELSE error.json

\* the text extracted from a thrown fault object, given its first entry:
\* the entry's message, or else its detail
errorMessage(error) == [text |-> extractMessage(faultObject(error))]

\* results pushed by the grouping loop of processAll
\* a first loop that drops the empty rows without reporting them
\* a first loop without the test for empty rows: an empty row is reported
\* as a row without bill number
RECURSIVE loopResults_EmptyAsError(_, _)
loopResults_EmptyAsError(rows, i) ==
  IF i >= Len(rows) THEN << >>
  ELSE (IF Trim(rows[i + 1].BillNumber) = << >>
          THEN << WithIndex([BaseResult EXCEPT !.status = "error",
                               !.error = [text |-> "BillNumber is required"]],
                            i) >>
        ELSE << >>)
       \o loopResults_EmptyAsError(rows, i + 1)

RECURSIVE loopResults_DropEmpty(_, _)
loopResults_DropEmpty(rows, i) ==
  IF i >= Len(rows) THEN << >>
  ELSE (IF isEmptyRow(rows[i + 1])
          THEN << >>
        ELSE IF Trim(rows[i + 1].BillNumber) = << >>
          THEN << WithIndex([BaseResult EXCEPT !.status = "error",
                               !.error = [text |-> "BillNumber is required"]],
                            i) >>
        ELSE << >>)
       \o loopResults_DropEmpty(rows, i + 1)

RECURSIVE loopResults(_, _)
loopResults(rows, i) ==
  IF i >= Len(rows) THEN << >>
  ELSE (IF isEmptyRow(rows[i + 1])
          THEN << WithIndex([BaseResult EXCEPT !.status = "skipped",
                               !.message = [text |-> "Empty row"]], i) >>
        ELSE IF Trim(rows[i + 1].BillNumber) = << >>
          THEN << WithIndex([BaseResult EXCEPT !.status = "error",
                               !.error = [text |-> "BillNumber is required"]],
                            i) >>
        ELSE << >>)
       \o loopResults(rows, i + 1)

\* a validation loop that looks at the first row of the group only
firstInvalid_FirstRowOnly(st, group, i) ==
  IF Len(validateRow(st, group.rows[1], group.indices[1])) > 0 THEN 1 ELSE 0

\* the synchronous head of processBillGroup: validation of every row, then
\* the idempotency check; `proceed` when the first await is reached
RECURSIVE firstInvalid(_, _, _)
firstInvalid(st, group, i) ==
  IF i > Len(group.rows) THEN 0
  ELSE IF Len(validateRow(st, group.rows[i], group.indices[i])) > 0 THEN i
  ELSE firstInvalid(st, group, i + 1)

\* the result returned when row number `bad` of the group is invalid
invalidResult(group, bad, errors) ==
  [BaseResult EXCEPT !.status = "error",
     !.error = [text |-> "Row", row |-> group.indices[bad] + 1,
                errors |-> errors]]

\* a head of processBillGroup without the idempotency check
headAt_NoKeyCheck(st, keys, group, bad, idempotencyKey) ==
  IF bad > 0
    THEN [proceed |-> FALSE,
          result |-> invalidResult(group, bad,
                       validateRow(st, group.rows[bad], group.indices[bad]))]
  ELSE [proceed |-> TRUE, result |-> BaseResult]

headAt(st, keys, group, bad, idempotencyKey) ==
  IF bad > 0
    THEN [proceed |-> FALSE,
          result |-> invalidResult(group, bad,
                       validateRow(st, group.rows[bad], group.indices[bad]))]
  ELSE IF idempotencyKey \in keys
    THEN [proceed |-> FALSE,
          result |-> [BaseResult EXCEPT !.status = "skipped",
             !.message = [text |-> "already processed",
                          bill |-> group.billNumber],
             !.idempotencyKey = [key |-> idempotencyKey]]]
  ELSE [proceed |-> TRUE, result |-> BaseResult]

groupHead(st, keys, group) ==
  headAt(st, keys, group, firstInvalid(st, group, 1), KeyOf(group.billNumber))

\* processAll after processBillGroup returned: one result per row of the
\* group, then the progress callback
pushGroup(acc, group, billResult, total) ==
  [results |-> acc.results
                 \o [k \in 1..Len(group.indices) |->
                       WithIndex(billResult, group.indices[k])],
   processedCount |-> acc.processedCount + Len(group.rows),
   progress |-> Append(acc.progress,
                  [current |-> acc.processedCount + Len(group.rows),
                   total |-> total])]

\* the loop of processAll from group g on, up to the first await of a
\* group that needs the external system, or to the return
RECURSIVE enterGroups(_, _, _, _, _, _)
enterFrom(st, keys, billGroups, g, acc, total, head) ==
  IF head.proceed THEN [pc |-> "findCustomer", gi |-> g, acc |-> acc]
  ELSE enterGroups(st, keys, billGroups, g + 1,
         pushGroup(acc, billGroups[g], head.result, total), total)

enterGroups(st, keys, billGroups, g, acc, total) ==
  IF g > Len(billGroups) THEN [pc |-> "done", gi |-> g, acc |-> acc]
  ELSE enterFrom(st, keys, billGroups, g, acc, total,
                 groupHead(st, keys, billGroups[g]))

\* the statuses of a run by row index (position i + 1 holds row i)
StatusByIndex(res, n) ==
  [i \in 1..n |->
     IF \E k \in 1..Len(res) : res[k].rowIndex = i - 1
       THEN res[CHOOSE k \in 1..Len(res) : res[k].rowIndex = i - 1].status
       ELSE "none"]

(***************************************************************************)
(* State.                                                                  *)
(***************************************************************************)
VARIABLES
  settings,        \* CSVProcessor.settings
  processedKeys,   \* CSVProcessor.processedKeys
  qbo,             \* the documents held by the external system
  pc,              \* the await at which processAll is suspended
  rows,            \* processAll: rows
  attachments,     \* processAll: attachments (the filenames of the map)
  billGroups,      \* processAll: billGroups, in insertion order
  gi,              \* processAll: position of the group loop
  results,         \* processAll: results
  processedCount,  \* processAll: processedCount
  progress,        \* the calls of onProgress
  loc,             \* the locals of the running processBillGroup
  call,            \* the external call in progress or last completed
  calls,           \* the external calls issued by the current run
  faulty,          \* number of calls of which an attempt failed
  runs,            \* number of processAll invocations
  firstRun,        \* statuses of the previous run when it had the same rows
  startKeys,       \* processedKeys at the start of the current run
  dry,             \* the value returned by the last dryRun, and its rows
  parked           \* a second processAll invocation suspended at an await

vars == << settings, processedKeys, qbo, pc, rows, attachments, billGroups,
           gi, results, processedCount, progress, loc, call, calls, faulty,
           runs, firstRun, startKeys, dry, parked >>

NoLoc ==
  [customer |-> Null, vendor |-> Null, departmentId |-> Undefined,
   expenseAccountId |-> Undefined, billLines |-> << >>,
   allSubCustomerIds |-> << >>, ri |-> 0, subCustomer |-> Null,
   bill |-> Null, attachmentResults |-> << >>, allFileNames |-> << >>,
   fi |-> 0, invoice |-> Null]

NoCall ==
  [op |-> "", seq |-> 0, state |-> "none", retryCount |-> 0,
   sleeps |-> << >>, trace |-> << >>, error |-> Undefined]

NoDry == [rows |-> << >>, results |-> << >>]

\* no second invocation
NoContext == [none |-> TRUE]

Init ==
  /\ \E w \in Worlds : settings = w.settings /\ qbo = w.qbo
  /\ processedKeys = { }
  /\ pc = "idle"
  /\ rows = << >>
  /\ attachments = { }
  /\ billGroups = << >>
  /\ gi = 0
  /\ results = << >>
  /\ processedCount = 0
  /\ progress = << >>
  /\ loc = NoLoc
  /\ call = NoCall
  /\ calls = << >>
  /\ faulty = 0
  /\ runs = 0
  /\ firstRun = << >>
  /\ startKeys = { }
  /\ dry = NoDry
  /\ parked = NoContext

Group == billGroups[gi]
FirstRow == Group.rows[1]
Row == Group.rows[loc.ri]

(***************************************************************************)
(* Control transfer inside processAll / processBillGroup.                  *)
(***************************************************************************)
\* continue processBillGroup up to its next await
Goto(newPc, newLoc) ==
  /\ pc' = newPc
  /\ loc' = newLoc
  /\ UNCHANGED << processedKeys, gi, results, processedCount, progress >>

\* processAll resumes at the position `nxt` of its group loop
Resume(nxt) ==
  /\ pc' = nxt.pc
  /\ gi' = nxt.gi
  /\ results' = nxt.acc.results
  /\ processedCount' = nxt.acc.processedCount
  /\ progress' = nxt.acc.progress

\* processBillGroup returns billResult; processAll pushes it for every row
\* of the group, reports progress and goes on with the following groups
Return(billResult, keys) ==
  /\ processedKeys' = keys
  /\ loc' = NoLoc
  /\ Resume(enterGroups(settings, keys, billGroups, gi + 1,
               pushGroup([results |-> results,
                          processedCount |-> processedCount,
                          progress |-> progress],
                         Group, billResult, Len(rows)),
               Len(rows)))

\* a processBillGroup without the catch block whose fault rejects
\* processAll: the run never returns
Caught_Rethrow(error) ==
  /\ pc' = "rejected"
  /\ UNCHANGED << processedKeys, loc, gi, results, processedCount,
                  progress >>

\* a processBillGroup without the catch block: the fault ends processAll
Caught_Abort(error) ==
  /\ processedKeys' = processedKeys
  /\ loc' = NoLoc
  /\ Resume([pc |-> "done", gi |-> gi,
             acc |-> [results |-> results,
                      processedCount |-> processedCount,
                      progress |-> progress]])

\* a catch block that marks the bill as processed
Caught_Marks(error) ==
  Return([BaseResult EXCEPT !.status = "error",
                            !.error = errorMessage(error)],
         processedKeys \cup { KeyOf(Group.billNumber) })

\* the catch block of processBillGroup, entered with the value `error`
CaughtValue(error) ==
  Return([BaseResult EXCEPT !.status = "error",
                            !.error = [text |-> extractMessage(error)]],
         processedKeys)

\* the catch block of processBillGroup, entered with the fault object whose
\* first entry is `error`
Caught(error) == CaughtValue(faultObject(error))

\* the sleep of retryWithBackoff: nothing but the call in progress changes
Sleeping ==
  UNCHANGED << pc, loc, processedKeys, gi, results, processedCount,
               progress, qbo >>

RunVars ==
  << settings, rows, attachments, billGroups, runs, firstRun, startKeys,
     dry, parked >>

(***************************************************************************)
(* One attempt of the external call `op` made for the current group.       *)
(***************************************************************************)
Current(op) ==
  IF call.state = "running" THEN call ELSE [NoCall EXCEPT !.op = op]

Attempt(op, outcome) == retryWithBackoff(op, outcome, Current(op).retryCount)

\* the state of the call after the attempt
CallState(s) ==
  CASE s.kind = "retry" -> "running"
    [] s.kind = "thrown" -> "thrown"
    [] OTHER -> "returned"

\* the call in flight after one more attempt of it; seq is its number among
\* the calls of the run
Attempted(op, outcome, cur, s) ==
  [op |-> op,
   seq |-> IF cur.trace = << >> THEN Len(calls) + 1 ELSE Len(calls),
   state |-> CallState(s),
   retryCount |-> IF s.kind = "retry" THEN cur.retryCount + 1
                  ELSE cur.retryCount,
   sleeps |-> IF s.kind = "retry" THEN Append(cur.sleeps, s.delay)
              ELSE cur.sleeps,
   trace |-> Append(cur.trace, outcome),
   error |-> s.error]

Booked(op, arg, outcome, cur, s) ==
  /\ outcome \in Outcomes
  /\ (cur.trace = << >> /\ outcome # OkAnswer) => faulty < MaxFaultyCalls
  /\ faulty' = IF cur.trace = << >> /\ outcome # OkAnswer
                 THEN faulty + 1 ELSE faulty
  /\ calls' = IF cur.trace = << >>
                THEN Append(calls, [op |-> op, group |-> Group.billNumber,
                                    arg |-> arg, result |-> CallState(s)])
                ELSE [calls EXCEPT ![Len(calls)].result = CallState(s)]
  /\ call' = Attempted(op, outcome, cur, s)
  /\ UNCHANGED RunVars

Book(op, arg, outcome) ==
  Booked(op, arg, outcome, Current(op), Attempt(op, outcome))

(***************************************************************************)
(* src/lib/processor.ts : processAll, up to the first await.               *)
(***************************************************************************)
processAll(batch, files) ==
  /\ pc \in { "idle", "done" }
  /\ runs < MaxRuns
  /\ rows' = batch
  /\ attachments' = files
  /\ billGroups' = billGroupsOf(batch)
  /\ Resume(enterGroups(settings, processedKeys, billGroupsOf(batch), 1,
              [results |-> loopResults(batch, 0), processedCount |-> 0,
               progress |-> << >>], Len(batch)))
  /\ loc' = NoLoc
  /\ runs' = runs + 1
  /\ calls' = << >>
  /\ call' = NoCall
  /\ firstRun' = IF pc = "done" /\ batch = rows
                   THEN StatusByIndex(results, Len(rows)) ELSE << >>
  /\ startKeys' = processedKeys
  /\ dry' = NoDry
  /\ UNCHANGED << settings, processedKeys, qbo, faulty, parked >>

\* a dry run that narrates nothing for the bills already processed
DryRun_SkipsProcessed ==
  /\ pc = "done"
  /\ dry = NoDry
  /\ dry' = [rows |-> rows,
             results |->
               LET r == dryRun(settings, rows)
               IN [k \in 1..Len(r) |->
                     IF KeyOf(Trim(rows[r[k].rowIndex + 1].BillNumber))
                          \in processedKeys
                       THEN [r[k] EXCEPT !.actions = << >>]
                     ELSE r[k]]]
  /\ UNCHANGED << settings, processedKeys, qbo, pc, rows, attachments,
                  billGroups, gi, results, processedCount, progress, loc,
                  call, calls, faulty, runs, firstRun, startKeys,
                  parked >>

\* a dry run that records the keys of the groups it went through
DryRun_Marks ==
  /\ pc = "done"
  /\ dry = NoDry
  /\ dry' = [rows |-> rows, results |-> dryRun(settings, rows)]
  /\ processedKeys' = processedKeys \cup
       { KeyOf(billGroups[g].billNumber) : g \in 1..Len(billGroups) }
  /\ UNCHANGED << settings, qbo, pc, rows, attachments,
                  billGroups, gi, results, processedCount, progress, loc,
                  call, calls, faulty, runs, firstRun, startKeys,
                  parked >>

\* dryRun on the rows of the finished run
DryRun ==
  /\ pc = "done"
  /\ dry = NoDry
  /\ dry' = [rows |-> rows, results |-> dryRun(settings, rows)]
  /\ UNCHANGED << settings, processedKeys, qbo, pc, rows, attachments,
                  billGroups, gi, results, processedCount, progress, loc,
                  call, calls, faulty, runs, firstRun, startKeys,
                  parked >>

\* a missing customer or vendor reported as a skipped group
NeedsReview_Skipped(kind, name) ==
  [BaseResult EXCEPT !.status = "skipped",
     !.error = [text |-> "not found. Enable auto-create or create manually.",
                kind |-> kind, name |-> name]]

(***************************************************************************)
(* src/lib/processor.ts : processBillGroup, one action per await.          *)
(***************************************************************************)
NeedsReview(kind, name) ==
  [BaseResult EXCEPT !.status = "needs_review",
     !.error = [text |-> "not found. Enable auto-create or create manually.",
                kind |-> kind, name |-> name]]

\* after the vendor is known: department lookup only when Location is given
AfterVendor(l) ==
  IF ~Blank(FirstRow.Location) THEN Goto("findDepartment", l)
  ELSE Goto("getExpenseAccount", l)

\* a customer lookup that creates the missing customer whatever autoCreate
\* says
FindCustomer_AlwaysCreates(outcome) ==
  /\ pc = "findCustomer"
  /\ Book("findCustomerByName", [name |-> FirstRow.CustomerName], outcome)
  /\ LET s == Attempt("findCustomerByName", outcome)
         customer == IF s.null500 THEN Null
                     ELSE FirstByName(qbo.customers, FirstRow.CustomerName)
     IN CASE s.kind = "retry" -> Sleeping
          [] s.kind = "thrown" -> Caught(s.error) /\ UNCHANGED qbo
          [] OTHER ->
               /\ UNCHANGED qbo
               /\ IF customer # Null
                    THEN Goto("findVendor", [loc EXCEPT !.customer = customer])
                  ELSE Goto("createCustomer", loc)

\* Step 1: findCustomerByName(firstRow.CustomerName)
FindCustomer(outcome) ==
  /\ pc = "findCustomer"
  /\ Book("findCustomerByName", [name |-> FirstRow.CustomerName], outcome)
  /\ LET s == Attempt("findCustomerByName", outcome)
         customer == IF s.null500 THEN Null
                     ELSE FirstByName(qbo.customers, FirstRow.CustomerName)
     IN CASE s.kind = "retry" -> Sleeping
          [] s.kind = "thrown" -> Caught(s.error) /\ UNCHANGED qbo
          [] OTHER ->
               /\ UNCHANGED qbo
               /\ IF customer # Null
                    THEN Goto("findVendor", [loc EXCEPT !.customer = customer])
                  ELSE IF settings.autoCreate
                    THEN Goto("createCustomer", loc)
                  ELSE Return(NeedsReview("Customer", FirstRow.CustomerName),
                              processedKeys)

\* createCustomer(displayName, parentRef?) in the external system
NewCustomer(displayName, parentRef) ==
  [Id |-> Id("Customer", Len(qbo.customers) + 1),
   DisplayName |-> displayName, ParentRef |-> parentRef,
   Job |-> parentRef # Undefined]

\* Step 1: createCustomer(firstRow.CustomerName)
CreateCustomer(outcome) ==
  /\ pc = "createCustomer"
  /\ Book("createCustomer",
          [name |-> FirstRow.CustomerName, parent |-> Undefined], outcome)
  /\ LET s == Attempt("createCustomer", outcome)
         customer == NewCustomer(FirstRow.CustomerName, Undefined)
     IN CASE s.kind = "retry" -> Sleeping
          [] s.kind = "thrown" -> Caught(s.error) /\ UNCHANGED qbo
          [] OTHER ->
               /\ qbo' = [qbo EXCEPT !.customers = Append(@, customer)]
               /\ Goto("findVendor", [loc EXCEPT !.customer = customer])

\* a vendor lookup that creates the missing vendor whatever autoCreate says
FindVendor_AlwaysCreate(outcome) ==
  /\ pc = "findVendor"
  /\ Book("findVendorByName", [name |-> FirstRow.VendorName], outcome)
  /\ LET s == Attempt("findVendorByName", outcome)
         vendor == IF s.null500 THEN Null
                   ELSE FirstByName(qbo.vendors, FirstRow.VendorName)
     IN CASE s.kind = "retry" -> Sleeping
          [] s.kind = "thrown" -> Caught(s.error) /\ UNCHANGED qbo
          [] OTHER ->
               /\ UNCHANGED qbo
               /\ IF vendor # Null
                    THEN AfterVendor([loc EXCEPT !.vendor = vendor])
                  ELSE Goto("createVendor", loc)

\* Step 2: findVendorByName(firstRow.VendorName)
FindVendor(outcome) ==
  /\ pc = "findVendor"
  /\ Book("findVendorByName", [name |-> FirstRow.VendorName], outcome)
  /\ LET s == Attempt("findVendorByName", outcome)
         vendor == IF s.null500 THEN Null
                   ELSE FirstByName(qbo.vendors, FirstRow.VendorName)
     IN CASE s.kind = "retry" -> Sleeping
          [] s.kind = "thrown" -> Caught(s.error) /\ UNCHANGED qbo
          [] OTHER ->
               /\ UNCHANGED qbo
               /\ IF vendor # Null
                    THEN AfterVendor([loc EXCEPT !.vendor = vendor])
                  ELSE IF settings.autoCreate
                    THEN Goto("createVendor", loc)
                  ELSE Return(NeedsReview("Vendor", FirstRow.VendorName),
                              processedKeys)

\* Step 2: createVendor(firstRow.VendorName)
CreateVendor(outcome) ==
  /\ pc = "createVendor"
  /\ Book("createVendor", [name |-> FirstRow.VendorName], outcome)
  /\ LET s == Attempt("createVendor", outcome)
         vendor == [Id |-> Id("Vendor", Len(qbo.vendors) + 1),
                    DisplayName |-> FirstRow.VendorName]
     IN CASE s.kind = "retry" -> Sleeping
          [] s.kind = "thrown" -> Caught(s.error) /\ UNCHANGED qbo
          [] OTHER ->
               /\ qbo' = [qbo EXCEPT !.vendors = Append(@, vendor)]
               /\ AfterVendor([loc EXCEPT !.vendor = vendor])

\* a department lookup that fails the group when the department is missing
FindDepartment_Required(outcome) ==
  /\ pc = "findDepartment"
  /\ Book("findDepartmentByName", [name |-> Trim(FirstRow.Location)], outcome)
  /\ LET s == Attempt("findDepartmentByName", outcome)
         department == IF s.null500 THEN Null
                       ELSE FirstNamed(qbo.departments,
                                       Trim(FirstRow.Location))
     IN CASE s.kind = "retry" -> Sleeping
          [] s.kind = "thrown" -> Caught(s.error) /\ UNCHANGED qbo
          [] OTHER ->
               /\ UNCHANGED qbo
               /\ IF department # Null
                    THEN Goto("getExpenseAccount",
                              [loc EXCEPT !.departmentId = department.Id])
                    ELSE Return([BaseResult EXCEPT !.status = "error",
                                   !.error = [text |-> "Department not found"]],
                                processedKeys)

\* Step 3: findDepartmentByName(firstRow.Location.trim())
FindDepartment(outcome) ==
  /\ pc = "findDepartment"
  /\ Book("findDepartmentByName", [name |-> Trim(FirstRow.Location)], outcome)
  /\ LET s == Attempt("findDepartmentByName", outcome)
         department == IF s.null500 THEN Null
                       ELSE FirstNamed(qbo.departments,
                                       Trim(FirstRow.Location))
     IN CASE s.kind = "retry" -> Sleeping
          [] s.kind = "thrown" -> Caught(s.error) /\ UNCHANGED qbo
          [] OTHER ->
               /\ UNCHANGED qbo
               /\ Goto("getExpenseAccount",
                       IF department # Null
                         THEN [loc EXCEPT !.departmentId = department.Id]
                         ELSE loc)

\* Step 4: getExpenseAccount(), then the first row of the line loop
GetExpenseAccount(outcome) ==
  /\ pc = "getExpenseAccount"
  /\ Book("getExpenseAccount", [name |-> << >>], outcome)
  /\ LET s == Attempt("getExpenseAccount", outcome)
     IN CASE s.kind = "retry" -> Sleeping
          [] s.kind = "thrown" -> Caught(s.error) /\ UNCHANGED qbo
          [] OTHER ->
               /\ UNCHANGED qbo
               /\ Goto("findProject",
                       [loc EXCEPT !.expenseAccountId = Id("Account", 1),
                                   !.ri = 1])

\* a line loop that goes on without pushing the line
PushLine_Skip(l, classId) ==
  IF l.ri < Len(Group.rows)
    THEN Goto("findProject", [l EXCEPT !.ri = @ + 1])
    ELSE Goto("createBill", l)

\* a line loop that builds every line from the first row of the group
PushLine_FirstRow(l, classId) ==
  LET line == [DetailType |-> "AccountBasedExpenseLineDetail",
               Amount |-> validateAmount(FirstRow.BillLineAmount),
               Description |-> FirstRow.BillLineDescription,
               AccountRef |-> l.expenseAccountId,
               CustomerRef |-> l.subCustomer.Id,
               BillableStatus |-> "Billable",
               ClassRef |-> classId]
      pushed == [l EXCEPT !.billLines = Append(@, line)]
  IN IF l.ri < Len(Group.rows)
       THEN Goto("findProject", [pushed EXCEPT !.ri = @ + 1])
       ELSE Goto("createBill", pushed)

\* the end of one iteration of the line loop: push the line, then either
\* the next row or the Bill
PushLine(l, classId) ==
  LET line == [DetailType |-> "AccountBasedExpenseLineDetail",
               Amount |-> validateAmount(Row.BillLineAmount),
               Description |-> Row.BillLineDescription,
               AccountRef |-> l.expenseAccountId,
               CustomerRef |-> l.subCustomer.Id,
               BillableStatus |-> "Billable",
               ClassRef |-> classId]
      pushed == [l EXCEPT !.billLines = Append(@, line)]
  IN IF l.ri < Len(Group.rows)
       THEN Goto("findProject", [pushed EXCEPT !.ri = @ + 1])
       ELSE Goto("createBill", pushed)

\* after the sub-customer of the row is known
AfterSubCustomer(subCustomer) ==
  LET l == [loc EXCEPT !.subCustomer = subCustomer,
                       !.allSubCustomerIds = Append(@, subCustomer.Id)]
  IN IF ~Blank(Row.Category) THEN Goto("findClass", l)
     ELSE PushLine(l, Undefined)

\* a project lookup that asks for review when autoCreate is off
FindProject_RespectAutoCreate(outcome) ==
  /\ pc = "findProject"
  /\ Book("findCustomerByName", [name |-> Row.ProjectName], outcome)
  /\ LET s == Attempt("findCustomerByName", outcome)
         subCustomer == IF s.null500 THEN Null
                        ELSE FirstByName(qbo.customers, Row.ProjectName)
     IN CASE s.kind = "retry" -> Sleeping
          [] s.kind = "thrown" -> Caught(s.error) /\ UNCHANGED qbo
          [] OTHER ->
               /\ UNCHANGED qbo
               /\ IF subCustomer # Null THEN AfterSubCustomer(subCustomer)
                  ELSE IF settings.autoCreate THEN Goto("createProject", loc)
                  ELSE Return(NeedsReview("Project", Row.ProjectName),
                              processedKeys)

\* Step 4, per row: findCustomerByName(row.ProjectName)
FindProject(outcome) ==
  /\ pc = "findProject"
  /\ Book("findCustomerByName", [name |-> Row.ProjectName], outcome)
  /\ LET s == Attempt("findCustomerByName", outcome)
         subCustomer == IF s.null500 THEN Null
                        ELSE FirstByName(qbo.customers, Row.ProjectName)
     IN CASE s.kind = "retry" -> Sleeping
          [] s.kind = "thrown" -> Caught(s.error) /\ UNCHANGED qbo
          [] OTHER ->
               /\ UNCHANGED qbo
               /\ IF subCustomer # Null THEN AfterSubCustomer(subCustomer)
                  ELSE Goto("createProject", loc)

\* Step 4, per row: createCustomer(row.ProjectName, customer.Id)
CreateProject(outcome) ==
  /\ pc = "createProject"
  /\ Book("createCustomer",
          [name |-> Row.ProjectName, parent |-> loc.customer.Id], outcome)
  /\ LET s == Attempt("createCustomer", outcome)
         subCustomer == NewCustomer(Row.ProjectName, loc.customer.Id)
     IN CASE s.kind = "retry" -> Sleeping
          [] s.kind = "thrown" -> Caught(s.error) /\ UNCHANGED qbo
          [] OTHER ->
               /\ qbo' = [qbo EXCEPT !.customers = Append(@, subCustomer)]
               /\ AfterSubCustomer(subCustomer)

\* Step 4, per row: findClassByName(row.Category.trim())
FindClass(outcome) ==
  /\ pc = "findClass"
  /\ Book("findClassByName", [name |-> Trim(Row.Category)], outcome)
  /\ LET s == Attempt("findClassByName", outcome)
         classObj == IF s.null500 THEN Null
                     ELSE FirstNamed(qbo.classes, Trim(Row.Category))
     IN CASE s.kind = "retry" -> Sleeping
          [] s.kind = "thrown" -> Caught(s.error) /\ UNCHANGED qbo
          [] OTHER ->
               /\ UNCHANGED qbo
               /\ PushLine(loc, IF classObj # Null THEN classObj.Id
                                ELSE Undefined)

\* a Step 6 that passes over the files that are not in the uploads
RECURSIVE missingFiles_Silent(_, _, _, _)
missingFiles_Silent(names, files, i, attachmentResults) ==
  IF i > Len(names) \/ names[i] \in files
    THEN [fi |-> i, attachmentResults |-> attachmentResults]
  ELSE missingFiles_Silent(names, files, i + 1, attachmentResults)

\* Step 6: the files of the group from position i on that are not in the
\* uploads get an error result without any call
RECURSIVE missingFiles(_, _, _, _)
missingFiles(names, files, i, attachmentResults) ==
  IF i > Len(names) \/ names[i] \in files
    THEN [fi |-> i, attachmentResults |-> attachmentResults]
  ELSE missingFiles(names, files, i + 1,
         Append(attachmentResults,
                [filename |-> names[i], attachableId |-> Undefined,
                 status |-> "error",
                 error |-> [text |-> "File not found in uploads"]]))

\* the Invoice created before any file is uploaded to the Bill
BillFilesFrom_InvoiceFirst(l, i, attachmentResults) ==
  Goto("createInvoice",
       [l EXCEPT !.fi = i, !.attachmentResults = attachmentResults])

\* Step 6 from file i on: up to the next upload, or on to the Invoice
BillFilesFrom(l, i, attachmentResults) ==
  LET m == missingFiles(l.allFileNames, attachments, i, attachmentResults)
      l2 == [l EXCEPT !.fi = m.fi, !.attachmentResults = m.attachmentResults]
  IN IF m.fi <= Len(l.allFileNames) THEN Goto("uploadBill", l2)
     ELSE Goto("createInvoice", l2)

\* Step 5: createBill(billData)
CreateBill(outcome) ==
  /\ pc = "createBill"
  /\ LET billData ==
           [DocNumber |-> Group.billNumber,
            VendorRef |-> loc.vendor.Id,
            TxnDate |-> parseDate(FirstRow.BillDate,
                                  settings.strictDateParsing),
            Line |-> loc.billLines,
            CurrencyRef |-> IF FirstRow.Currency # << >>
                              THEN [value |-> FirstRow.Currency]
                              ELSE Undefined,
            DepartmentRef |-> loc.departmentId]
         s == Attempt("createBill", outcome)
         bill == [Id |-> Id("Bill", Len(qbo.bills) + 1), doc |-> billData]
     IN /\ Book("createBill", billData, outcome)
        /\ CASE s.kind = "retry" -> Sleeping
             [] s.kind = "thrown" -> Caught(s.error) /\ UNCHANGED qbo
             [] OTHER ->
                  /\ qbo' = [qbo EXCEPT !.bills = Append(@, bill)]
                  /\ BillFilesFrom(
                       [loc EXCEPT !.bill = bill,
                          !.allFileNames = allFileNamesOf(Group.rows)],
                       1, << >>)

\* an upload to the Bill whose failure is not caught per file
UploadToBill_Escalate(outcome) ==
  /\ pc = "uploadBill"
  /\ LET fileName == loc.allFileNames[loc.fi]
         s == Attempt("uploadAttachment", outcome)
         attachable == [Id |-> Id("Attachable", Len(qbo.attachables) + 1),
                        FileName |-> fileName, type |-> "Bill",
                        value |-> loc.bill.Id]
     IN /\ Book("uploadAttachment",
                [file |-> fileName, type |-> "Bill", value |-> loc.bill.Id],
                outcome)
        /\ CASE s.kind = "retry" -> Sleeping
             [] s.kind = "thrown" -> Caught(s.error) /\ UNCHANGED qbo
             [] OTHER ->
                  /\ qbo' = [qbo EXCEPT !.attachables = Append(@, attachable)]
                  /\ BillFilesFrom(loc, loc.fi + 1,
                       Append(loc.attachmentResults,
                              [filename |-> fileName,
                               attachableId |-> attachable.Id,
                               status |-> "success",
                               error |-> Undefined]))

\* Step 6: uploadAttachment(file, "Bill", bill.Id); a failure is recorded
\* for the file and the loop goes on
UploadToBill(outcome) ==
  /\ pc = "uploadBill"
  /\ LET fileName == loc.allFileNames[loc.fi]
         s == Attempt("uploadAttachment", outcome)
         attachable == [Id |-> Id("Attachable", Len(qbo.attachables) + 1),
                        FileName |-> fileName, type |-> "Bill",
                        value |-> loc.bill.Id]
     IN /\ Book("uploadAttachment",
                [file |-> fileName, type |-> "Bill", value |-> loc.bill.Id],
                outcome)
        /\ CASE s.kind = "retry" -> Sleeping
             [] s.kind = "thrown" ->
                  /\ UNCHANGED qbo
                  /\ BillFilesFrom(loc, loc.fi + 1,
                       Append(loc.attachmentResults,
                              [filename |-> fileName,
                               attachableId |-> Undefined,
                               status |-> "error",
                               \* error.message of a fault object
                               error |-> Undefined]))
             [] OTHER ->
                  /\ qbo' = [qbo EXCEPT !.attachables = Append(@, attachable)]
                  /\ BillFilesFrom(loc, loc.fi + 1,
                       Append(loc.attachmentResults,
                              [filename |-> fileName,
                               attachableId |-> attachable.Id,
                               status |-> "success",
                               error |-> Undefined]))

\* the end of processBillGroup: mark the key as processed and return success
\* a successful end that does not record the idempotency key
Finish_NoMark(l) ==
  LET idempotencyKey == KeyOf(Group.billNumber)
  IN Return([BaseResult EXCEPT
               !.status = "success",
               !.customerId = l.customer.Id,
               !.subCustomerId = l.allSubCustomerIds[1],
               !.vendorId = l.vendor.Id,
               !.billId = l.bill.Id,
               !.invoiceId = l.invoice.Id,
               !.attachmentResults = [list |-> l.attachmentResults],
               !.idempotencyKey = [key |-> idempotencyKey],
               !.message = [text |-> "created", bill |-> Group.billNumber,
                            lines |-> Len(l.billLines)]],
            processedKeys)

Finish(l) ==
  LET idempotencyKey == KeyOf(Group.billNumber)
  IN Return([BaseResult EXCEPT
               !.status = "success",
               !.customerId = l.customer.Id,
               !.subCustomerId = l.allSubCustomerIds[1],
               !.vendorId = l.vendor.Id,
               !.billId = l.bill.Id,
               !.invoiceId = l.invoice.Id,
               !.attachmentResults = [list |-> l.attachmentResults],
               !.idempotencyKey = [key |-> idempotencyKey],
               !.message = [text |-> "created", bill |-> Group.billNumber,
                            lines |-> Len(l.billLines)]],
            processedKeys \cup { idempotencyKey })

\* Step 8 from file i on: the next file that is in the uploads, or the end
RECURSIVE nextUploaded(_, _, _)
nextUploaded(names, files, i) ==
  IF i > Len(names) \/ names[i] \in files THEN i
  ELSE nextUploaded(names, files, i + 1)

InvoiceFilesFrom(l, i) ==
  LET n == nextUploaded(l.allFileNames, attachments, i)
  IN IF settings.alsoAttachToInvoice /\ n <= Len(l.allFileNames)
       THEN Goto("uploadInvoice", [l EXCEPT !.fi = n])
       ELSE Finish(l)

\* Step 7: createInvoiceFromBillableExpenses(...)
CreateInvoice(outcome) ==
  /\ pc = "createInvoice"
  /\ LET currency == OrElse(FirstRow.Currency, settings.defaultCurrency)
         doc ==
           [CustomerRef |-> loc.allSubCustomerIds[1],
            TxnDate |-> parseDate(FirstRow.InvoiceDate,
                                  settings.strictDateParsing),
            PONumber |-> IF ~Blank(FirstRow.PONumber)
                           THEN [value |-> FirstRow.PONumber] ELSE Undefined,
            CustomField |-> IF ~Blank(FirstRow.PointOfContact)
                              THEN [Name |-> "Point of Contact",
                                    StringValue |-> FirstRow.PointOfContact]
                              ELSE Undefined,
            CurrencyRef |-> IF currency # << >> THEN [value |-> currency]
                            ELSE Undefined]
         s == Attempt("createInvoice", outcome)
         invoice == [Id |-> Id("Invoice", Len(qbo.invoices) + 1), doc |-> doc]
     IN /\ Book("createInvoice", doc, outcome)
        /\ CASE s.kind = "retry" -> Sleeping
             [] s.kind = "thrown" -> Caught(s.error) /\ UNCHANGED qbo
             [] OTHER ->
                  /\ qbo' = [qbo EXCEPT !.invoices = Append(@, invoice)]
                  /\ InvoiceFilesFrom([loc EXCEPT !.invoice = invoice], 1)

\* an upload to the Invoice whose failure is reported like one to the Bill
UploadToInvoice_Records(outcome) ==
  /\ pc = "uploadInvoice"
  /\ LET fileName == loc.allFileNames[loc.fi]
         s == Attempt("uploadAttachment", outcome)
         attachable == [Id |-> Id("Attachable", Len(qbo.attachables) + 1),
                        FileName |-> fileName, type |-> "Invoice",
                        value |-> loc.invoice.Id]
     IN /\ Book("uploadAttachment",
                [file |-> fileName, type |-> "Invoice",
                 value |-> loc.invoice.Id], outcome)
        /\ CASE s.kind = "retry" -> Sleeping
             [] s.kind = "thrown" ->
                  /\ UNCHANGED qbo
                  /\ InvoiceFilesFrom(
                       [loc EXCEPT !.attachmentResults =
                          Append(@, [filename |-> fileName,
                                     attachableId |-> Undefined,
                                     status |-> "error",
                                     error |-> Undefined])],
                       loc.fi + 1)
             [] OTHER ->
                  /\ qbo' = [qbo EXCEPT !.attachables = Append(@, attachable)]
                  /\ InvoiceFilesFrom(loc, loc.fi + 1)

\* Step 8: uploadAttachment(file, "Invoice", invoice.Id); a failure is only
\* logged
UploadToInvoice(outcome) ==
  /\ pc = "uploadInvoice"
  /\ LET fileName == loc.allFileNames[loc.fi]
         s == Attempt("uploadAttachment", outcome)
         attachable == [Id |-> Id("Attachable", Len(qbo.attachables) + 1),
                        FileName |-> fileName, type |-> "Invoice",
                        value |-> loc.invoice.Id]
     IN /\ Book("uploadAttachment",
                [file |-> fileName, type |-> "Invoice",
                 value |-> loc.invoice.Id], outcome)
        /\ CASE s.kind = "retry" -> Sleeping
             [] s.kind = "thrown" ->
                  /\ UNCHANGED qbo
                  /\ InvoiceFilesFrom(loc, loc.fi + 1)
             [] OTHER ->
                  /\ qbo' = [qbo EXCEPT !.attachables = Append(@, attachable)]
                  /\ InvoiceFilesFrom(loc, loc.fi + 1)

(***************************************************************************)
(* Specification.                                                          *)
(***************************************************************************)
Next ==
  \/ \E batch \in Batches : processAll(batch, Uploads)
  \/ DryRun
  \/ \E outcome \in Outcomes : FindCustomer(outcome)
  \/ \E outcome \in Outcomes : CreateCustomer(outcome)
  \/ \E outcome \in Outcomes : FindVendor(outcome)
  \/ \E outcome \in Outcomes : CreateVendor(outcome)
  \/ \E outcome \in Outcomes : FindDepartment(outcome)
  \/ \E outcome \in Outcomes : GetExpenseAccount(outcome)
  \/ \E outcome \in Outcomes : FindProject(outcome)
  \/ \E outcome \in Outcomes : CreateProject(outcome)
  \/ \E outcome \in Outcomes : FindClass(outcome)
  \/ \E outcome \in Outcomes : CreateBill(outcome)
  \/ \E outcome \in Outcomes : UploadToBill(outcome)
  \/ \E outcome \in Outcomes : CreateInvoice(outcome)
  \/ \E outcome \in Outcomes : UploadToInvoice(outcome)

Spec == Init /\ [][Next]_vars

(***************************************************************************)
(* Vocabulary of the properties.                                           *)
(***************************************************************************)
Done == pc = "done"

(***************************************************************************)
(* Every external call is awaited (src/lib/processor.ts : 580-762) and     *)
(* retryWithBackoff awaits its sleep (src/lib/qbo-service.ts : 35-54):     *)
(* when each call returns or fails, the attempt in flight at an await ends *)
(* and the continuation of the await runs.                                 *)
(***************************************************************************)
\* the operation awaited at each position of processBillGroup
Awaited ==
  [findCustomer |-> "findCustomerByName", createCustomer |-> "createCustomer",
   findVendor |-> "findVendorByName", createVendor |-> "createVendor",
   findDepartment |-> "findDepartmentByName",
   getExpenseAccount |-> "getExpenseAccount",
   findProject |-> "findCustomerByName", createProject |-> "createCustomer",
   findClass |-> "findClassByName", createBill |-> "createBill",
   uploadBill |-> "uploadAttachment", createInvoice |-> "createInvoice",
   uploadInvoice |-> "uploadAttachment"]

\* the attempt in flight ends with `outcome`
AttemptEnds(op, outcome) ==
  /\ (Current(op).trace = << >> /\ outcome # OkAnswer) =>
       faulty < MaxFaultyCalls
  /\ call' = Attempted(op, outcome, Current(op), Attempt(op, outcome))

CallSettles ==
  /\ pc \in DOMAIN Awaited
  /\ \E outcome \in Outcomes : AttemptEnds(Awaited[pc], outcome)

FairSpec == Init /\ [][Next]_vars /\ WF_call(CallSettles)

\* the positions of `results` that report row index i
PositionsOf(i) == { k \in 1..Len(results) : results[k].rowIndex = i }

\* the result reported for row index i (when there is one)
ResultOf(i) == results[CHOOSE k \in 1..Len(results) : results[k].rowIndex = i]

\* a result without its rowIndex
Outcome(r) ==
  [status |-> r.status, customerId |-> r.customerId,
   subCustomerId |-> r.subCustomerId, vendorId |-> r.vendorId,
   billId |-> r.billId, invoiceId |-> r.invoiceId,
   attachmentResults |-> r.attachmentResults, error |-> r.error,
   message |-> r.message, idempotencyKey |-> r.idempotencyKey]

\* the external calls the current run made for bill number bn
CallsFor(bn) == { k \in 1..Len(calls) : calls[k].group = bn }

CreateOps == { "createCustomer", "createVendor", "createBill",
               "createInvoice", "uploadAttachment" }

\* the row indices of the batch that were put in a group
GroupedRows ==
  { i \in 0..(Len(rows) - 1) :
      ~isEmptyRow(rows[i + 1]) /\ Trim(rows[i + 1].BillNumber) # << >> }

BillOf(i) == Trim(rows[i + 1].BillNumber)

Terminal == { "success", "error", "needs_review", "skipped" }

\* C1: when processAll is run twice on the same rows, every row whose group
\* succeeded in the first run is skipped in the second, and the second run
\* issues no create or upload call for those groups
C1_SecondRunSkips ==
  (Done /\ firstRun # << >>) =>
    \A i \in GroupedRows :
      firstRun[i + 1] = "success" =>
        /\ PositionsOf(i) # { }
        /\ ResultOf(i).status = "skipped"
        /\ \A k \in CallsFor(BillOf(i)) : calls[k].op \notin CreateOps

C1_Witness ==
  /\ Done
  /\ firstRun # << >>
  /\ \E i \in GroupedRows :
       firstRun[i + 1] = "success" /\ ResultOf(i).status = "skipped"

\* C2 as stated: a group whose key is in the processed-key set when it is
\* reached has all its rows skipped with the message naming the bill, and
\* causes no external call
C2_Original ==
  Done =>
    \A i \in GroupedRows :
      KeyOf(BillOf(i)) \in startKeys =>
        /\ PositionsOf(i) # { }
        /\ ResultOf(i).status = "skipped"
        /\ ResultOf(i).message =
             [text |-> "already processed", bill |-> BillOf(i)]
        /\ CallsFor(BillOf(i)) = { }

\* the rows of the batch that share the group of row i
GroupMates(i) == { j \in GroupedRows : BillOf(j) = BillOf(i) }

GroupValid(i) ==
  \A j \in GroupMates(i) : validateRow(settings, rows[j + 1], j) = << >>

\* C2 amended: a group whose key is in the processed-key set when it is
\* reached causes no external call; its rows are skipped with the message
\* naming the bill when every row of the group passes validation, and get
\* status error when a row of the group fails validation
C2_SkipsProcessedWhenValid ==
  Done =>
    \A i \in GroupedRows :
      KeyOf(BillOf(i)) \in startKeys =>
        /\ PositionsOf(i) # { }
        /\ CallsFor(BillOf(i)) = { }
        /\ GroupValid(i) =>
             /\ ResultOf(i).status = "skipped"
             /\ ResultOf(i).message =
                  [text |-> "already processed", bill |-> BillOf(i)]
        /\ ~GroupValid(i) => ResultOf(i).status = "error"

C2_Witness ==
  /\ Done
  /\ \E i \in GroupedRows :
       /\ KeyOf(BillOf(i)) \in startKeys
       /\ GroupValid(i)
       /\ ResultOf(i).status = "skipped"
       /\ CallsFor(BillOf(i)) = { }

\* the Bill documents the external system holds for document number bn
BillsNumbered(bn) ==
  { k \in 1..Len(qbo.bills) : qbo.bills[k].doc.DocNumber = bn }

\* C3 as stated: over all runs of one processor, the external system ends
\* up with at most one Bill per trimmed bill number
C3_OneBillPerNumber ==
  \A k \in 1..Len(qbo.bills) :
    Cardinality(BillsNumbered(qbo.bills[k].doc.DocNumber)) <= 1

\* an external call of the group of bill number bn was thrown to
\* processBillGroup
Thrown(bn, ops) ==
  \E k \in CallsFor(bn) : calls[k].result = "thrown" /\ calls[k].op \in ops

AllOps == FindOps \cup CreateOps \cup { "getExpenseAccount" }

EveryRowReported ==
  \A i \in 0..(Len(rows) - 1) :
    PositionsOf(i) # { } /\ ResultOf(i).status \in Terminal

\* C4 as stated: when any external call of a group fails, every row of the
\* group gets status error, and every later group is still processed
C4_Original ==
  Done =>
    /\ EveryRowReported
    /\ \A i \in GroupedRows :
         Thrown(BillOf(i), AllOps) => ResultOf(i).status = "error"

\* C4 amended: when an external call of a group other than an attachment
\* upload is thrown by the service (after the retries), every row of the
\* group gets status error; a failed upload does not change the status; in
\* both cases every row of every later group still gets a terminal status
C4_FailureIsolated ==
  Done =>
    /\ EveryRowReported
    /\ \A i \in GroupedRows :
         Thrown(BillOf(i), AllOps \ { "uploadAttachment" })
           => ResultOf(i).status = "error"

C4_Witness ==
  /\ Done
  /\ Len(billGroups) = 2
  /\ Thrown(billGroups[1].billNumber, AllOps \ { "uploadAttachment" })
  /\ ResultOf(billGroups[1].indices[1]).status = "error"
  /\ ResultOf(billGroups[2].indices[1]).status = "success"

\* C5: processAll returns exactly one result for every row index of the
\* input, and no other result
C5_OneResultPerRow ==
  Done =>
    /\ Len(results) = Len(rows)
    /\ \A i \in 0..(Len(rows) - 1) : Cardinality(PositionsOf(i)) = 1

C5_Witness ==
  /\ Done
  /\ Len(rows) = 2
  /\ isEmptyRow(rows[1])
  /\ 1 \in GroupedRows
  /\ Cardinality(PositionsOf(0)) = 1
  /\ Cardinality(PositionsOf(1)) = 1

\* C6 as stated: the result at position i of the returned sequence has
\* rowIndex i
C6_IndexOrder ==
  Done => \A k \in 1..Len(results) : results[k].rowIndex = k - 1

\* every attempt of the call in progress was answered with the rate-limit
\* fault
AllRateLimited ==
  \A k \in 1..Len(call.trace) : call.trace[k] = RateLimitFault

\* C7: every external call is retried on the rate-limit fault only: a call
\* that keeps being rate limited is attempted exactly 4 times, sleeps 1000,
\* 2000 and 4000 ms in that order between the attempts and then throws the
\* fault unchanged; every call starts with retry count 0
C7_RetryTiming ==
  /\ Len(call.trace) <= 4
  /\ Len(call.sleeps) <= 3
  /\ call.sleeps = SubSeq(<< 1000, 2000, 4000 >>, 1, Len(call.sleeps))
  /\ call.state = "running" =>
       /\ AllRateLimited
       /\ call.retryCount = Len(call.trace)
       /\ Len(call.sleeps) = Len(call.trace)
  /\ call.state \in { "returned", "thrown" } =>
       Len(call.sleeps) = Len(call.trace) - 1
  /\ (AllRateLimited /\ Len(call.trace) \in 1..3) => call.state = "running"
  /\ (AllRateLimited /\ Len(call.trace) = 4) =>
       /\ call.state = "thrown"
       /\ call.error = RateLimitFault
       /\ call.sleeps = << 1000, 2000, 4000 >>

C7_Witness ==
  /\ call.state = "thrown"
  /\ AllRateLimited
  /\ Len(call.trace) = 4
  /\ call.sleeps = << 1000, 2000, 4000 >>
  /\ call.error = RateLimitFault

\* C8: an attempt answered with a fault other than the rate-limit fault is
\* the last attempt of its call, with no sleep after it; when the operation
\* rejects with that fault, the call throws exactly that fault
C8_NoRetryOnOtherFault ==
  \A k \in 1..Len(call.trace) :
    call.trace[k].code \notin { "ok", "3200" } =>
      /\ k = Len(call.trace)
      /\ call.state # "running"
      /\ Len(call.sleeps) = k - 1
      /\ operation(call.op, call.trace[k]).rejected =>
           /\ call.state = "thrown"
           /\ call.error = call.trace[k]

C8_Witness ==
  /\ call.state = "thrown"
  /\ Len(call.trace) = 3
  /\ call.trace[1] = RateLimitFault
  /\ call.trace[2] = RateLimitFault
  /\ call.trace[3] = OtherFault
  /\ call.error = OtherFault
  /\ call.sleeps = << 1000, 2000 >>

\* the result dryRun reported for row index i
DryOf(i) ==
  dry.results[CHOOSE k \in 1..Len(dry.results) : dry.results[k].rowIndex = i]

DryReported(i) == \E k \in 1..Len(dry.results) : dry.results[k].rowIndex = i

\* the non-empty rows of the batch
NonEmptyRows == { i \in 0..(Len(rows) - 1) : ~isEmptyRow(rows[i + 1]) }

\* C9: the non-empty rows that share a trimmed bill number are in exactly
\* one group, processAll gives them the same result up to rowIndex, and
\* dryRun gives them the same actions (and errors)
C9_OneGroupSameOutcome ==
  /\ \A g, h \in 1..Len(billGroups) :
       billGroups[g].billNumber = billGroups[h].billNumber => g = h
  /\ \A i \in GroupedRows :
       \E g \in 1..Len(billGroups) :
         /\ billGroups[g].billNumber = BillOf(i)
         /\ \E k \in 1..Len(billGroups[g].indices) :
              billGroups[g].indices[k] = i
  /\ Done =>
       \A i, j \in NonEmptyRows :
         BillOf(i) = BillOf(j) =>
           /\ PositionsOf(i) # { }
           /\ PositionsOf(j) # { }
           /\ Outcome(ResultOf(i)) = Outcome(ResultOf(j))
  /\ dry # NoDry =>
       \A i, j \in NonEmptyRows :
         BillOf(i) = BillOf(j) =>
           /\ DryReported(i)
           /\ DryReported(j)
           /\ DryOf(i).actions = DryOf(j).actions
           /\ DryOf(i).errors = DryOf(j).errors

C9_Witness ==
  /\ Done
  /\ dry # NoDry
  /\ Len(rows) = 2
  /\ rows[1].BillNumber # rows[2].BillNumber
  /\ GroupedRows = { 0, 1 }
  /\ BillOf(0) = BillOf(1)
  /\ Len(billGroups) = 1
  /\ ResultOf(0).status = "success"
  /\ Outcome(ResultOf(0)) = Outcome(ResultOf(1))
  /\ DryOf(0).actions # << >>
  /\ DryOf(0).actions = DryOf(1).actions

\* the row indices dryRun reports with errors
DryErrorRows ==
  { i \in 0..(Len(rows) - 1) : DryReported(i) /\ DryOf(i).errors # << >> }

\* the row indices processAll reports as error before any external call
EarlyErrorRows ==
  { i \in 0..(Len(rows) - 1) :
      /\ PositionsOf(i) # { }
      /\ ResultOf(i).status = "error"
      /\ CallsFor(BillOf(i)) = { } }

\* C10: on a fresh processor, the rows dryRun reports with errors are the
\* rows processAll reports with status error without any external call
C10_DryRunParity ==
  (dry # NoDry /\ runs = 1) => DryErrorRows = EarlyErrorRows

C10_Witness ==
  /\ dry # NoDry
  /\ runs = 1
  /\ Len(rows) = 2
  /\ DryErrorRows = { 0, 1 }
  /\ EarlyErrorRows = { 0, 1 }
  /\ BillOf(0) = BillOf(1)
  /\ validateRow(settings, rows[1], 0) = << >>
  /\ validateRow(settings, rows[2], 1) # << >>

\* C11: a step in which dryRun returns leaves the external system, the
\* external calls made so far and the processed keys as they were
C11_DryRunFrame ==
  [][(dry' # dry /\ dry' # NoDry) =>
       UNCHANGED << processedKeys, qbo, calls, call >>]_vars

\* dryRun has narrated a valid group on a processor that has processed keys
\* and has made external calls
C11_Witness ==
  /\ dry # NoDry
  /\ processedKeys # { }
  /\ calls # << >>
  /\ \E k \in 1..Len(dry.results) : dry.results[k].actions # << >>

\* the row indices of the batch whose tracked fields are all blank
EmptyRows == { i \in 0..(Len(rows) - 1) : isEmptyRow(rows[i + 1]) }

\* the number of rows of the batch grouped under bill number bn
RowsOfBill(bn) == Cardinality({ i \in GroupedRows : BillOf(i) = bn })

FirstRowOf(bn) ==
  rows[(CHOOSE i \in GroupedRows :
          /\ BillOf(i) = bn
          /\ \A j \in GroupedRows : BillOf(j) = bn => i <= j) + 1]

\* the last external call the current run made for bill number bn
LastCallOf(bn) ==
  calls[CHOOSE k \in CallsFor(bn) : \A j \in CallsFor(bn) : j <= k]

\* the calls of the current run that create a vendor or a top-level customer
TopLevelCreates ==
  { k \in 1..Len(calls) :
      \/ calls[k].op = "createVendor"
      \/ calls[k].op = "createCustomer" /\ calls[k].arg.parent = Undefined }

\* the group of bn ended on a lookup of its customer that found nothing
EndedOnCustomerLookup(bn) ==
  /\ Cardinality(CallsFor(bn)) = 1
  /\ LastCallOf(bn).op = "findCustomerByName"
  /\ LastCallOf(bn).result = "returned"

\* the group of bn ended on a lookup of its vendor that found nothing
EndedOnVendorLookup(bn) ==
  /\ CallsFor(bn) # { }
  /\ LastCallOf(bn).op = "findVendorByName"
  /\ LastCallOf(bn).result = "returned"

\* C13: without autoCreate no vendor and no top-level customer is ever
\* created, and a group whose customer or vendor is not found ends with
\* status needs_review and an error naming the missing entity; with
\* autoCreate no group ends with needs_review and a successful group refers
\* to the customer and the vendor named by its first row
C13_NeedsReview ==
  /\ ~settings.autoCreate => TopLevelCreates = { }
  /\ settings.autoCreate =>
       \A k \in 1..Len(results) : results[k].status # "needs_review"
  /\ Done =>
       \A i \in GroupedRows :
         /\ ResultOf(i).status = "needs_review" <=>
              /\ ~settings.autoCreate
              /\ EndedOnCustomerLookup(BillOf(i))
                   \/ EndedOnVendorLookup(BillOf(i))
         /\ (~settings.autoCreate /\ EndedOnCustomerLookup(BillOf(i))) =>
              ResultOf(i).error =
                NeedsReview("Customer", FirstRowOf(BillOf(i)).CustomerName).error
         /\ (~settings.autoCreate /\ EndedOnVendorLookup(BillOf(i))) =>
              ResultOf(i).error =
                NeedsReview("Vendor", FirstRowOf(BillOf(i)).VendorName).error
         /\ ResultOf(i).status = "success" =>
              /\ \E c \in 1..Len(qbo.customers) :
                   /\ qbo.customers[c].Id = ResultOf(i).customerId
                   /\ qbo.customers[c].DisplayName =
                        FirstRowOf(BillOf(i)).CustomerName
              /\ \E v \in 1..Len(qbo.vendors) :
                   /\ qbo.vendors[v].Id = ResultOf(i).vendorId
                   /\ qbo.vendors[v].DisplayName =
                        FirstRowOf(BillOf(i)).VendorName

\* without autoCreate a group has ended needs_review on its missing vendor
C13_Witness ==
  /\ Done
  /\ ~settings.autoCreate
  /\ \E i \in GroupedRows :
       /\ ResultOf(i).status = "needs_review"
       /\ EndedOnVendorLookup(BillOf(i))
       /\ ResultOf(i).error.kind = "Vendor"
       /\ ResultOf(i).error.name = << "Carl" >>
       /\ \A v \in 1..Len(qbo.vendors) :
            qbo.vendors[v].DisplayName # << "Carl" >>

\* the project names of the rows grouped under bill number bn
ProjectNames(bn) ==
  { rows[i + 1].ProjectName : i \in { j \in GroupedRows : BillOf(j) = bn } }

\* the calls of the current run that create a project of their group
ProjectCreates ==
  { k \in 1..Len(calls) :
      /\ calls[k].op = "createCustomer"
      /\ calls[k].arg.name \in ProjectNames(calls[k].group) }

\* C14: with or without autoCreate, a project lookup that finds nothing is
\* followed by the creation of the project as a sub-customer of the
\* customer resolved for the group: no group ends on a project lookup, and
\* every row of a successful group has its project in the external system
C14_ProjectsAlwaysCreated ==
  /\ \A k \in ProjectCreates :
       /\ k > 1
       /\ calls[k - 1].op = "findCustomerByName"
       /\ calls[k - 1].group = calls[k].group
       /\ calls[k - 1].arg.name = calls[k].arg.name
       /\ calls[k - 1].result = "returned"
       /\ calls[k].arg.parent # Undefined
       /\ \E c \in 1..Len(qbo.customers) :
            /\ qbo.customers[c].Id = calls[k].arg.parent
            /\ qbo.customers[c].DisplayName =
                 FirstRowOf(calls[k].group).CustomerName
       /\ calls[k].result = "returned" =>
            \E c \in 1..Len(qbo.customers) :
              /\ qbo.customers[c].DisplayName = calls[k].arg.name
              /\ qbo.customers[c].ParentRef = calls[k].arg.parent
              /\ qbo.customers[c].Job
  /\ Done =>
       \A i \in GroupedRows :
         /\ (/\ CallsFor(BillOf(i)) # { }
             /\ LastCallOf(BillOf(i)).op = "findCustomerByName"
             /\ LastCallOf(BillOf(i)).result = "returned") =>
              Cardinality(CallsFor(BillOf(i))) = 1
         /\ ResultOf(i).status = "success" =>
              \E c \in 1..Len(qbo.customers) :
                /\ qbo.customers[c].DisplayName = rows[i + 1].ProjectName
                /\ qbo.customers[c].ParentRef # Undefined

\* without autoCreate a missing project has been created under the customer
\* of its group
C14_Witness ==
  /\ ~settings.autoCreate
  /\ \E k \in ProjectCreates :
       /\ calls[k].result = "returned"
       /\ calls[k].arg.name = << "Proj" >>
       /\ \E c \in 1..Len(qbo.customers) :
            /\ qbo.customers[c].Id = calls[k].arg.parent
            /\ qbo.customers[c].DisplayName = << "Acme" >>

\* the group of the current run with bill number bn
GroupOf(bn) ==
  billGroups[CHOOSE g \in 1..Len(billGroups) : billGroups[g].billNumber = bn]

\* a call made for bn, other than an upload, ended by throwing
ThrownIn(bn) ==
  \E k \in CallsFor(bn) :
    calls[k].result = "thrown" /\ calls[k].op # "uploadAttachment"

\* the Bill submitted by call k refers to the department and the classes
\* that exist under the names its rows give, and to nothing otherwise
RefsAsFound(k, group) ==
  /\ calls[k].arg.DepartmentRef # Undefined =>
       /\ FirstNamed(qbo.departments, Trim(group.rows[1].Location)) # Null
       /\ calls[k].arg.DepartmentRef =
            FirstNamed(qbo.departments, Trim(group.rows[1].Location)).Id
  /\ FirstNamed(qbo.departments, Trim(group.rows[1].Location)) = Null =>
       calls[k].arg.DepartmentRef = Undefined
  /\ Len(calls[k].arg.Line) = Len(group.rows)
  /\ \A j \in 1..Len(group.rows) :
       /\ calls[k].arg.Line[j].ClassRef # Undefined =>
            /\ FirstNamed(qbo.classes, Trim(group.rows[j].Category)) # Null
            /\ calls[k].arg.Line[j].ClassRef =
                 FirstNamed(qbo.classes, Trim(group.rows[j].Category)).Id
       /\ FirstNamed(qbo.classes, Trim(group.rows[j].Category)) = Null =>
            calls[k].arg.Line[j].ClassRef = Undefined

\* C15: a department or class that is not found is left out of the Bill and
\* the group goes on: a lookup of a department or class that returns is
\* followed by the next call of the same group, a group ends with status
\* error only on an invalid row or a thrown call, and with needs_review only
\* on a missing customer or vendor
C15_OptionalRefs ==
  /\ \A k \in 1..Len(calls) :
       /\ calls[k].op = "createBill" =>
            RefsAsFound(k, GroupOf(calls[k].group))
       /\ (/\ calls[k].op \in { "findDepartmentByName", "findClassByName" }
           /\ calls[k].result = "returned") =>
            IF k < Len(calls) THEN calls[k + 1].group = calls[k].group
            ELSE pc \in { "getExpenseAccount", "findProject", "createBill" }
  /\ Done =>
       \A i \in GroupedRows :
         /\ ResultOf(i).status = "error" =>
              ~GroupValid(i) \/ ThrownIn(BillOf(i))
         /\ ResultOf(i).status = "needs_review" =>
              EndedOnCustomerLookup(BillOf(i))
                \/ EndedOnVendorLookup(BillOf(i))

\* two groups succeeded: one names a department the external system does not
\* have, the other a class it does not have
C15_Witness ==
  /\ Done
  /\ Len(rows) = 2
  /\ ResultOf(0).status = "success"
  /\ ResultOf(1).status = "success"
  /\ \E k \in 1..Len(calls) :
       /\ calls[k].op = "createBill"
       /\ calls[k].result = "returned"
       /\ ~Blank(GroupOf(calls[k].group).rows[1].Location)
       /\ FirstNamed(qbo.departments,
                     Trim(GroupOf(calls[k].group).rows[1].Location)) = Null
       /\ calls[k].arg.DepartmentRef = Undefined
  /\ \E k \in 1..Len(calls) :
       /\ calls[k].op = "createBill"
       /\ calls[k].result = "returned"
       /\ ~Blank(GroupOf(calls[k].group).rows[1].Category)
       /\ FirstNamed(qbo.classes,
                     Trim(GroupOf(calls[k].group).rows[1].Category)) = Null
       /\ calls[k].arg.Line[1].ClassRef = Undefined

\* the filenames listed by the rows of group bn, trimmed, each once
FileNamesOf(bn) == allFileNamesOf(GroupOf(bn).rows)

\* the positions of the attachment results of r that are about file f
EntriesFor(r, f) ==
  { k \in 1..Len(r.attachmentResults.list) :
      r.attachmentResults.list[k].filename = f }

\* the files of group bn that are not in the attachments map
MissingOf(bn) == Range(FileNamesOf(bn)) \ attachments

\* C16: no upload is ever called for a file that is not in the attachments
\* map; a successful group reports each such file exactly once, with status
\* error and "File not found in uploads"; a group ends with status error
\* only on an invalid row or a thrown call
C16_MissingFile ==
  /\ \A k \in 1..Len(calls) :
       calls[k].op = "uploadAttachment" => calls[k].arg.file \in attachments
  /\ Done =>
       \A i \in GroupedRows :
         /\ ResultOf(i).status = "success" =>
              \A f \in MissingOf(BillOf(i)) :
                /\ Cardinality(EntriesFor(ResultOf(i), f)) = 1
                /\ \A k \in EntriesFor(ResultOf(i), f) :
                     ResultOf(i).attachmentResults.list[k] =
                       [filename |-> f, attachableId |-> Undefined,
                        status |-> "error",
                        error |-> [text |-> "File not found in uploads"]]
         /\ (ResultOf(i).status = "error" /\ MissingOf(BillOf(i)) # { }) =>
              ~GroupValid(i) \/ ThrownIn(BillOf(i))

\* a group that lists a file missing from the uploads has succeeded
C16_Witness ==
  /\ Done
  /\ \E i \in GroupedRows :
       /\ ResultOf(i).status = "success"
       /\ << "b.pdf" >> \in MissingOf(BillOf(i))
       /\ Cardinality(EntriesFor(ResultOf(i), << "b.pdf" >>)) = 1
       /\ \A k \in CallsFor(BillOf(i)) :
            calls[k].op = "uploadAttachment" =>
              calls[k].arg.file # << "b.pdf" >>

\* the uploads of the current run for bn to an entity of the given type
\* that ended with the given result
UploadsOf(bn, type, result) ==
  { k \in CallsFor(bn) :
      /\ calls[k].op = "uploadAttachment"
      /\ calls[k].arg.type = type
      /\ calls[k].result = result }

\* the entry of the attachment results of r about file f
EntryFor(r, f) ==
  r.attachmentResults.list[CHOOSE k \in EntriesFor(r, f) : TRUE]

\* C17: an upload to the Bill that throws is followed by the next call of
\* the same group; in a group with such an upload every file of the map is
\* still uploaded to the Bill and the Invoice is still created, the group
\* ends with status error only when another call throws, and on success the
\* failed file alone is reported with status error
C17_UploadFailureIsolated ==
  /\ \A k \in 1..Len(calls) :
       (/\ calls[k].op = "uploadAttachment"
        /\ calls[k].arg.type = "Bill"
        /\ calls[k].result = "thrown") =>
         IF k < Len(calls) THEN calls[k + 1].group = calls[k].group
         ELSE pc \in { "uploadBill", "createInvoice" }
  /\ Done =>
       \A i \in GroupedRows :
         UploadsOf(BillOf(i), "Bill", "thrown") # { } =>
           /\ \A f \in Range(FileNamesOf(BillOf(i))) \cap attachments :
                \E k \in CallsFor(BillOf(i)) :
                  /\ calls[k].op = "uploadAttachment"
                  /\ calls[k].arg.type = "Bill"
                  /\ calls[k].arg.file = f
           /\ \E k \in CallsFor(BillOf(i)) : calls[k].op = "createInvoice"
           /\ ResultOf(i).status \in { "success", "error" }
           /\ ResultOf(i).status = "error" => ThrownIn(BillOf(i))
           /\ ResultOf(i).status = "success" =>
                /\ \A k \in UploadsOf(BillOf(i), "Bill", "thrown") :
                     /\ Cardinality(EntriesFor(ResultOf(i),
                                               calls[k].arg.file)) = 1
                     /\ EntryFor(ResultOf(i), calls[k].arg.file).status
                          = "error"
                /\ \A k \in UploadsOf(BillOf(i), "Bill", "returned") :
                     /\ Cardinality(EntriesFor(ResultOf(i),
                                               calls[k].arg.file)) = 1
                     /\ EntryFor(ResultOf(i), calls[k].arg.file).status
                          = "success"
                     /\ EntryFor(ResultOf(i), calls[k].arg.file).attachableId
                          # Undefined

\* the upload of a.pdf to the Bill failed, c.pdf was uploaded after it, the
\* Invoice was created and the group succeeded
C17_Witness ==
  /\ Done
  /\ \E i \in GroupedRows :
       /\ ResultOf(i).status = "success"
       /\ \E k \in UploadsOf(BillOf(i), "Bill", "thrown") :
            /\ calls[k].arg.file = << "a.pdf" >>
            /\ \E n \in UploadsOf(BillOf(i), "Bill", "returned") :
                 n > k /\ calls[n].arg.file = << "c.pdf" >>
       /\ EntryFor(ResultOf(i), << "a.pdf" >>).status = "error"
       /\ EntryFor(ResultOf(i), << "c.pdf" >>).status = "success"
       /\ \E k \in CallsFor(BillOf(i)) :
            calls[k].op = "createInvoice" /\ calls[k].result = "returned"

\* the attachment results of r are those of Step 6 for group bn: one entry
\* per file name, in order, successful exactly for the files whose upload to
\* the Bill returned
BillStageResults(r, bn) ==
  /\ Len(r.attachmentResults.list) = Len(FileNamesOf(bn))
  /\ \A n \in 1..Len(r.attachmentResults.list) :
       /\ r.attachmentResults.list[n].filename = FileNamesOf(bn)[n]
       /\ r.attachmentResults.list[n].status = "success" <=>
            \E k \in UploadsOf(bn, "Bill", "returned") :
              calls[k].arg.file = FileNamesOf(bn)[n]

\* C18: an upload to an Invoice is made only with alsoAttachToInvoice, only
\* for a file of the map and only after the Invoice of the group was
\* created; a group with such an upload, failed or not, ends with status
\* success and with the attachment results of the uploads to the Bill
C18_InvoiceUploadsBestEffort ==
  /\ \A k \in 1..Len(calls) :
       (calls[k].op = "uploadAttachment" /\ calls[k].arg.type = "Invoice") =>
         /\ settings.alsoAttachToInvoice
         /\ calls[k].arg.file \in attachments
         /\ \E n \in 1..(k - 1) :
              /\ calls[n].op = "createInvoice"
              /\ calls[n].group = calls[k].group
              /\ calls[n].result = "returned"
  /\ Done =>
       \A i \in GroupedRows :
         /\ (UploadsOf(BillOf(i), "Invoice", "thrown")
               \cup UploadsOf(BillOf(i), "Invoice", "returned") # { }) =>
              /\ ResultOf(i).status = "success"
              /\ BillStageResults(ResultOf(i), BillOf(i))
         /\ (/\ ~settings.alsoAttachToInvoice
             /\ ResultOf(i).status = "success") =>
              BillStageResults(ResultOf(i), BillOf(i))

\* an upload to the Invoice failed after the same file was uploaded to the
\* Bill, and the group succeeded
C18_Witness ==
  /\ Done
  /\ settings.alsoAttachToInvoice
  /\ \E i \in GroupedRows :
       /\ ResultOf(i).status = "success"
       /\ \E k \in UploadsOf(BillOf(i), "Invoice", "thrown") :
            /\ calls[k].arg.file = << "a.pdf" >>
            /\ EntryFor(ResultOf(i), << "a.pdf" >>).status = "success"
       /\ \E k \in UploadsOf(BillOf(i), "Invoice", "returned") :
            calls[k].arg.file = << "c.pdf" >>

\* the calls of the current run of operation op
CallsOf(op) == { k \in 1..Len(calls) : calls[k].op = op }

\* the first run of a processor with autoCreate, on the single row of bill
\* B1, has ended and every attempt of every call was accepted
SingleRowRun ==
  /\ Done
  /\ rows = << RowA >>
  /\ settings.autoCreate
  /\ runs = 1
  /\ faulty = 0

\* C19: the single row of bill B1 (project Proj, customer Acme, vendor Bob,
\* amount 100), processed with autoCreate against an external system that
\* accepts every call, gives exactly one createBill call with DocNumber B1
\* and one line of amount 100, exactly one invoice creation and a single
\* result with status success
C19_SingleRowScenario ==
  SingleRowRun =>
    /\ Cardinality(CallsOf("createBill")) = 1
    /\ \A k \in CallsOf("createBill") :
         /\ calls[k].result = "returned"
         /\ calls[k].arg.DocNumber = << "B1" >>
         /\ Len(calls[k].arg.Line) = 1
         /\ calls[k].arg.Line[1].Amount = Num(100)
    /\ Cardinality(CallsOf("createInvoice")) = 1
    /\ \A k \in CallsOf("createInvoice") : calls[k].result = "returned"
    /\ Len(qbo.bills) = 1
    /\ Len(qbo.invoices) = 1
    /\ Len(results) = 1
    /\ results[1].rowIndex = 0
    /\ results[1].status = "success"

C19_Witness ==
  /\ SingleRowRun
  /\ results[1].status = "success"
  /\ results[1].billId = qbo.bills[1].Id
  /\ qbo.bills[1].doc.DocNumber = << "B1" >>

\* C20: for every group that ended with status success, the Bill and the
\* Invoice it created carry the same currency reference: the currency of the
\* first row when it gives one, and settings.defaultCurrency otherwise
C20_SameCurrency ==
  Done =>
    \A i \in GroupedRows :
      ResultOf(i).status = "success" =>
        \A b \in 1..Len(qbo.bills) :
          \A v \in 1..Len(qbo.invoices) :
            (/\ qbo.bills[b].Id = ResultOf(i).billId
             /\ qbo.invoices[v].Id = ResultOf(i).invoiceId) =>
              /\ qbo.bills[b].doc.CurrencyRef
                   = qbo.invoices[v].doc.CurrencyRef
              /\ qbo.bills[b].doc.CurrencyRef =
                   [value |-> OrElse(FirstRowOf(BillOf(i)).Currency,
                                     settings.defaultCurrency)]

\* the find calls of the current run that ask operation op for name
FindsOf(op, name) ==
  { k \in CallsOf(op) : op \in FindOps /\ calls[k].arg.name = name }

\* the create calls of the current run that returned an entity called name
CreatedAs(op, name) ==
  { k \in CallsOf(op) :
      /\ op \in { "createCustomer", "createVendor" }
      /\ calls[k].result = "returned"
      /\ calls[k].arg.name = name }

\* C21 as stated: within one processAll run the external system is queried
\* at most once for each distinct customer, vendor, department or class
\* name, and no entity is created a second time in the run
C21_OneLookupPerName ==
  \A k \in 1..Len(calls) :
    /\ calls[k].op \in FindOps =>
         Cardinality(FindsOf(calls[k].op, calls[k].arg.name)) <= 1
    /\ calls[k].op \in { "createCustomer", "createVendor" } =>
         Cardinality(CreatedAs(calls[k].op, calls[k].arg.name)) <= 1

\* the non-empty rows of the batch whose bill number is blank
NoBillRows ==
  { i \in 0..(Len(rows) - 1) :
      ~isEmptyRow(rows[i + 1]) /\ Trim(rows[i + 1].BillNumber) = << >> }

\* C22: a non-empty row whose bill number is blank or whitespace is in no
\* group and causes no external call; from the start of processAll it has
\* exactly one result, among those pushed before the first group, with
\* status error and the text "BillNumber is required", and dryRun reports
\* it once with that error and no action
C22_NoBillNumber ==
  /\ \A i \in NoBillRows :
       /\ \A g \in 1..Len(billGroups) :
            \A k \in 1..Len(billGroups[g].indices) :
              billGroups[g].indices[k] # i
       /\ Cardinality(PositionsOf(i)) = 1
       /\ PositionsOf(i) \subseteq
            1..Cardinality(EmptyRows \cup NoBillRows)
       /\ ResultOf(i) =
            WithIndex([BaseResult EXCEPT !.status = "error",
                         !.error = [text |-> "BillNumber is required"]], i)
       /\ dry # NoDry =>
            /\ Cardinality({ k \in 1..Len(dry.results) :
                               dry.results[k].rowIndex = i }) = 1
            /\ DryOf(i) =
                 [rowIndex |-> i, actions |-> << >>, warnings |-> << >>,
                  errors |-> << [text |-> "BillNumber is required"] >>]
  /\ \A k \in 1..Len(calls) : calls[k].group # << >>
  /\ (NoBillRows \cup EmptyRows = 0..(Len(rows) - 1)) => calls = << >>

\* a run on a row without bill number and a row with one has finished and
\* dryRun has been applied to it: the second row made external calls
C22_Witness ==
  /\ Done
  /\ dry # NoDry
  /\ 0 \in NoBillRows
  /\ 1 \in GroupedRows
  /\ ResultOf(0).status = "error"
  /\ CallsFor(BillOf(1)) # { }

\* a processAll run is under way
Running == pc \notin { "idle", "done" }

\* every row of every group has a result with a terminal status
GroupsTerminal ==
  \A i \in GroupedRows :
    PositionsOf(i) # { } /\ ResultOf(i).status \in Terminal

\* C23: when each external call returns or fails, a processAll run that is
\* under way reaches its return, and there every row of every group has one
\* of the statuses success, error, needs_review, skipped
C23_Terminates == Running ~> (Done /\ GroupsTerminal)

\* a run of two groups has returned although a call of its first group was
\* thrown after the retries were used up; the second group succeeded
C23_Witness ==
  /\ Done
  /\ Len(billGroups) = 2
  /\ GroupsTerminal
  /\ \E k \in CallsFor(billGroups[1].billNumber) :
       calls[k].result = "thrown"
  /\ ResultOf(billGroups[2].indices[1]).status = "success"

\* C24: in processAll a result has status skipped only if its row is empty
\* or the key of its group was in the processed-key set when the run
\* started, hence when the group was reached
C24_SkippedOnlyIf ==
  \A k \in 1..Len(results) :
    results[k].status = "skipped" =>
      \/ results[k].rowIndex \in EmptyRows
      \/ /\ results[k].rowIndex \in GroupedRows
         /\ KeyOf(BillOf(results[k].rowIndex)) \in startKeys
         /\ results[k].idempotencyKey =
              [key |-> KeyOf(BillOf(results[k].rowIndex))]

\* a finished run skipped one group whose key was in the set and ended
\* another group, whose key was not, with an error or needs_review
C24_Witness ==
  /\ Done
  /\ \E i \in GroupedRows, j \in GroupedRows :
       /\ ResultOf(i).status = "skipped"
       /\ KeyOf(BillOf(i)) \in startKeys
       /\ KeyOf(BillOf(j)) \notin startKeys
       /\ ResultOf(j).status \in { "error", "needs_review" }

(***************************************************************************)
(* src/lib/processor.ts : validateRow applied to one row under given       *)
(* settings.  The row's Currency and settings.defaultCurrency range over   *)
(* codes, wrong cases, wrong lengths, padded and blank values; `dry` holds *)
(* the row and the ValidationError list returned for it.                   *)
(***************************************************************************)
CurrencyInputs ==
  { << "U", "S", "D" >>, << "E", "U", "R" >>, << "u", "s", "d" >>,
    << "U", "S" >>, << "U", "S", "D", "D" >>, << >>, << " " >>,
    << " ", "U", "S", "D", " " >> }

DefaultCurrencies ==
  { << "U", "S", "D" >>, << "E", "U", "R" >>, << "u", "s", "d" >>, << >> }

ValidationInit ==
  /\ \E d \in DefaultCurrencies, s \in BOOLEAN :
       settings = [LenientSettings EXCEPT !.defaultCurrency = d,
                                          !.strictDateParsing = s]
  /\ \E r \in { RowA, RowAPad }, c \in CurrencyInputs :
       rows = << [r EXCEPT !.Currency = c] >>
  /\ qbo = EmptyQbo
  /\ processedKeys = { }
  /\ pc = "idle"
  /\ attachments = { }
  /\ billGroups = << >>
  /\ gi = 0
  /\ results = << >>
  /\ processedCount = 0
  /\ progress = << >>
  /\ loc = NoLoc
  /\ call = NoCall
  /\ calls = << >>
  /\ faulty = 0
  /\ runs = 0
  /\ firstRun = << >>
  /\ startKeys = { }
  /\ dry = NoDry
  /\ parked = NoContext

ValidateRow ==
  /\ dry = NoDry
  /\ dry' = [rows |-> rows, results |-> validateRow(settings, rows[1], 0)]
  /\ UNCHANGED << settings, processedKeys, qbo, pc, rows, attachments,
                  billGroups, gi, results, processedCount, progress, loc,
                  call, calls, faulty, runs, firstRun, startKeys,
                  parked >>

ValidationSpec == ValidationInit /\ [][ValidateRow]_vars

\* the Currency errors validateRow returned
CurrencyErrors ==
  { k \in 1..Len(dry.results) : dry.results[k].field = "Currency" }

\* the row's trimmed currency if it is not blank, else the default
EffectiveCurrency ==
  IF Trim(rows[1].Currency) # << >> THEN Trim(rows[1].Currency)
  ELSE settings.defaultCurrency

\* C25: validateRow returns no Currency error exactly when the effective
\* currency (the row's trimmed currency if non-blank, else
\* settings.defaultCurrency) is a code of three capital letters: USD and
\* EUR pass, while usd, US, USDD and the empty string get one Currency
\* field error
C25_CurrencyValidation ==
  dry # NoDry =>
    /\ EffectiveCurrency \in { << "U", "S", "D" >>, << "E", "U", "R" >> } =>
         CurrencyErrors = { }
    /\ EffectiveCurrency \in { << "u", "s", "d" >>, << "U", "S" >>,
                               << "U", "S", "D", "D" >>, << >> } =>
         /\ Cardinality(CurrencyErrors) = 1
         /\ \A k \in CurrencyErrors :
              dry.results[k] =
                VErr(0, "Currency",
                     "Invalid currency code (must be 3-letter ISO code)")
    /\ EffectiveCurrency \in
         { << "U", "S", "D" >>, << "E", "U", "R" >>, << "u", "s", "d" >>,
           << "U", "S" >>, << "U", "S", "D", "D" >>, << >> }

\* validateRow was applied to a row with a blank currency under an empty
\* default currency and returned the Currency error
C25_Witness ==
  /\ dry # NoDry
  /\ rows[1].Currency = << " " >>
  /\ settings.defaultCurrency = << >>
  /\ CurrencyErrors # { }

\* the first external call the current run made for bill number bn
FirstCallOf(bn) ==
  CHOOSE k \in CallsFor(bn) : \A j \in CallsFor(bn) : k <= j

\* the position of the group of bn in the group loop of processAll
GroupIndex(bn) ==
  CHOOSE g \in 1..Len(billGroups) : billGroups[g].billNumber = bn

\* the step of processBillGroup that issued call k: 1 customer, 2 vendor,
\* 3 department, 4 expense account, 5 lines (project and class of each
\* row), 6 createBill, 7 Bill uploads, 8 invoice, 9 Invoice uploads
Stage(k) ==
  CASE calls[k].op = "findCustomerByName" ->
         IF k = FirstCallOf(calls[k].group) THEN 1 ELSE 5
    [] calls[k].op = "createCustomer" ->
         IF calls[k].arg.parent = Undefined THEN 1 ELSE 5
    [] calls[k].op \in { "findVendorByName", "createVendor" } -> 2
    [] calls[k].op = "findDepartmentByName" -> 3
    [] calls[k].op = "getExpenseAccount" -> 4
    [] calls[k].op = "findClassByName" -> 5
    [] calls[k].op = "createBill" -> 6
    [] calls[k].op = "uploadAttachment" ->
         IF calls[k].arg.type = "Bill" THEN 7 ELSE 9
    [] OTHER -> 8

\* the project lookups of the group of call k issued up to call k: their
\* number is the row of the group that call k works on
ProjectLookupsUpTo(k) ==
  { j \in CallsFor(calls[k].group) :
      /\ j <= k
      /\ calls[j].op = "findCustomerByName"
      /\ j # FirstCallOf(calls[k].group) }

\* C26: the calls of a group are issued in the order customer, vendor,
\* department, (expense account,) then row by row in input order project
\* resolution and class lookup, then createBill once every row is resolved,
\* then the uploads to the Bill of every file present, then the Invoice,
\* then the uploads to the Invoice; the calls of a later group all follow
\* those of an earlier group, and only the last call issued can be in
\* progress, also while it waits to be retried
C26_CallOrder ==
  \A k \in 1..Len(calls) :
    LET bn == calls[k].group
        g  == GroupOf(bn)
        r  == Cardinality(ProjectLookupsUpTo(k))
    IN /\ \A n \in 1..Len(calls) :
            k < n =>
              /\ GroupIndex(bn) <= GroupIndex(calls[n].group)
              /\ calls[n].group = bn => Stage(k) <= Stage(n)
       /\ calls[k].result = "running" =>
            k = Len(calls) /\ call.state = "running" /\ GroupIndex(bn) = gi
       /\ k = FirstCallOf(bn) =>
            /\ calls[k].op = "findCustomerByName"
            /\ calls[k].arg.name = g.rows[1].CustomerName
       /\ Stage(k) = 2 => calls[k].arg.name = g.rows[1].VendorName
       /\ Stage(k) = 3 => calls[k].arg.name = Trim(g.rows[1].Location)
       /\ Stage(k) = 5 =>
            /\ r \in 1..Len(g.rows)
            /\ calls[k].op \in { "findCustomerByName", "createCustomer" } =>
                 calls[k].arg.name = g.rows[r].ProjectName
            /\ calls[k].op = "createCustomer" =>
                 calls[k - 1].op = "findCustomerByName"
            /\ calls[k].op = "findClassByName" =>
                 calls[k].arg.name = Trim(g.rows[r].Category)
       /\ calls[k].op = "createBill" => r = Len(g.rows)
       /\ calls[k].op = "createInvoice" =>
            \A f \in Range(FileNamesOf(bn)) \cap attachments :
              \E j \in CallsFor(bn) :
                /\ j < k
                /\ calls[j].op = "uploadAttachment"
                /\ calls[j].arg.type = "Bill"
                /\ calls[j].arg.file = f

\* a run of two groups has returned: each group got its Bill and its
\* Invoice, the second one uploads to both, and the last call of the run
\* was retried after a backoff wait
C26_Witness ==
  /\ Done
  /\ Len(billGroups) = 2
  /\ \A g \in 1..2 :
       \E k \in CallsFor(billGroups[g].billNumber) :
         calls[k].op = "createInvoice" /\ calls[k].result = "returned"
  /\ UploadsOf(billGroups[2].billNumber, "Bill", "returned") # { }
  /\ UploadsOf(billGroups[2].billNumber, "Invoice", "returned") # { }
  /\ call.sleeps # << >>

\* the first row of the group of row i that fails validation
FirstInvalidMate(i) ==
  CHOOSE j \in GroupMates(i) :
    /\ validateRow(settings, rows[j + 1], j) # << >>
    /\ \A n \in GroupMates(i) :
         validateRow(settings, rows[n + 1], n) # << >> => j <= n

\* C27: when a row of a group fails validation, no external call is ever
\* made for the group, and every row of the group, valid or not, gets
\* status error with the errors of the first invalid row
C27_InvalidGroup ==
  \A i \in GroupedRows :
    ~GroupValid(i) =>
      /\ CallsFor(BillOf(i)) = { }
      /\ Done => PositionsOf(i) # { }
      /\ PositionsOf(i) # { } =>
           /\ ResultOf(i).status = "error"
           /\ ResultOf(i).error =
                [text |-> "Row", row |-> FirstInvalidMate(i) + 1,
                 errors |-> validateRow(settings,
                                        rows[FirstInvalidMate(i) + 1],
                                        FirstInvalidMate(i))]

\* a finished run on a group of a valid row followed by an invalid one:
\* the valid row has status error too and no call was made
C27_Witness ==
  /\ Done
  /\ Len(rows) = 2
  /\ GroupMates(0) = { 0, 1 }
  /\ validateRow(settings, rows[1], 0) = << >>
  /\ validateRow(settings, rows[2], 1) # << >>
  /\ ResultOf(0).status = "error"
  /\ ResultOf(1).status = "error"
  /\ calls = << >>

\* the "Line" narrations among the actions dryRun reports for row index i
LineNarrations(i) ==
  { a \in 1..Len(DryOf(i).actions) : DryOf(i).actions[a].act = "Line" }

\* C28: the Bill submitted for a group has one line per row of the group in
\* the rows' input order, each flagged Billable, carrying that row's amount
\* and description and referring to a customer named as that row's
\* project; its document number is the trimmed bill number, its vendor is
\* the one named by the first row and its date is the first row's bill
\* date; dryRun narrates as many lines for the group as the Bill has
C28_BillLines ==
  \A k \in CallsOf("createBill") :
    LET g == GroupOf(calls[k].group)
        d == calls[k].arg
    IN /\ d.DocNumber = Trim(g.rows[1].BillNumber)
       /\ \A j \in 1..Len(g.rows) : Trim(g.rows[j].BillNumber) = d.DocNumber
       /\ Len(d.Line) = Len(g.rows)
       /\ \A j \in 1..Len(d.Line) :
            /\ d.Line[j].BillableStatus = "Billable"
            /\ d.Line[j].Amount = validateAmount(g.rows[j].BillLineAmount)
            /\ d.Line[j].Description = g.rows[j].BillLineDescription
            /\ \E c \in 1..Len(qbo.customers) :
                 /\ qbo.customers[c].Id = d.Line[j].CustomerRef
                 /\ qbo.customers[c].DisplayName = g.rows[j].ProjectName
       /\ \E v \in 1..Len(qbo.vendors) :
            /\ qbo.vendors[v].Id = d.VendorRef
            /\ qbo.vendors[v].DisplayName = g.rows[1].VendorName
       /\ d.TxnDate = parseDate(g.rows[1].BillDate, settings.strictDateParsing)
       /\ dry # NoDry =>
            \A n \in 1..Len(g.indices) :
              Cardinality(LineNarrations(g.indices[n])) = Len(d.Line)

\* the Bill of a group of two rows with different projects and amounts was
\* submitted with two lines, and dryRun has narrated the same batch
C28_Witness ==
  /\ dry # NoDry
  /\ \E k \in CallsOf("createBill") :
       /\ calls[k].result = "returned"
       /\ Len(calls[k].arg.Line) = 2
       /\ calls[k].arg.Line[1].Amount # calls[k].arg.Line[2].Amount
       /\ calls[k].arg.Line[1].CustomerRef # calls[k].arg.Line[2].CustomerRef

\* C29: the groups stand, and are processed, in the order in which their
\* trimmed bill numbers first appear in the input; the rows of a group are
\* all the rows whose trimmed bill number is the group's, in input order;
\* results and external calls follow the order of the groups
C29_GroupOrder ==
  /\ \A g \in 1..Len(billGroups) :
       LET grp == billGroups[g]
       IN /\ Len(grp.indices) = Len(grp.rows)
          /\ Len(grp.rows) > 0
          /\ Range(grp.indices) =
               { i \in GroupedRows : BillOf(i) = grp.billNumber }
          /\ \A k \in 1..Len(grp.indices) :
               /\ grp.rows[k] = rows[grp.indices[k] + 1]
               /\ k > 1 => grp.indices[k - 1] < grp.indices[k]
          /\ \A h \in 1..Len(billGroups) :
               g < h => grp.indices[1] < billGroups[h].indices[1]
  /\ pc \in DOMAIN Awaited =>
       \A i \in GroupedRows :
         PositionsOf(i) # { } <=> GroupIndex(BillOf(i)) < gi
  /\ \A p, q \in 1..Len(results) :
       ( /\ p < q
         /\ results[p].rowIndex \in GroupedRows
         /\ results[q].rowIndex \in GroupedRows ) =>
         /\ GroupIndex(BillOf(results[p].rowIndex))
              <= GroupIndex(BillOf(results[q].rowIndex))
         /\ BillOf(results[p].rowIndex) = BillOf(results[q].rowIndex) =>
              results[p].rowIndex < results[q].rowIndex
  /\ \A k, n \in 1..Len(calls) :
       k < n => GroupIndex(calls[k].group) <= GroupIndex(calls[n].group)

\* a finished run of two groups, the first of them under a bill number
\* typed with surrounding blanks: both groups made calls and the results of
\* the first group stand before those of the second
C29_Witness ==
  /\ Done
  /\ Len(billGroups) = 2
  /\ rows[1].BillNumber # billGroups[1].billNumber
  /\ Trim(rows[1].BillNumber) = billGroups[1].billNumber
  /\ CallsFor(billGroups[1].billNumber) # { }
  /\ CallsFor(billGroups[2].billNumber) # { }
  /\ results[1].rowIndex = 0
  /\ results[2].rowIndex = 1

\* C30: a step changes the processed-key set only by adding the key
\* "bill_" + billNumber of the group being processed, in the step in which
\* that group returns success for each of its rows; a step in which a group
\* ends otherwise, and a step of dryRun, leave the set as it was
C30_KeyFrame ==
  [][ /\ processedKeys' # processedKeys =>
           /\ pc \in DOMAIN Awaited
           /\ processedKeys' = processedKeys \cup { KeyOf(Group.billNumber) }
           /\ Len(results') >= Len(results) + Len(Group.indices)
           /\ \A k \in 1..Len(Group.indices) :
                /\ results'[Len(results) + k].rowIndex = Group.indices[k]
                /\ results'[Len(results) + k].status = "success"
                /\ results'[Len(results) + k].idempotencyKey =
                     [key |-> KeyOf(Group.billNumber)]
      /\ ( /\ pc \in DOMAIN Awaited
           /\ Len(results') > Len(results)
           /\ results'[Len(results) + 1].status = "success" ) =>
           KeyOf(Group.billNumber) \in processedKeys'
      /\ dry' # dry => processedKeys' = processedKeys
    ]_vars

\* a finished run, followed by dryRun, in which one group succeeded and its
\* key joined the set, and another group ended with an error and its key
\* did not
C30_Witness ==
  /\ Done
  /\ dry # NoDry
  /\ \E i \in GroupedRows, j \in GroupedRows :
       /\ ResultOf(i).status = "success"
       /\ KeyOf(BillOf(i)) \in processedKeys \ startKeys
       /\ ResultOf(j).status \in { "error", "needs_review" }
       /\ KeyOf(BillOf(j)) \notin processedKeys

\* C31: the file names of a group are the non-blank pieces between the
\* semicolons of its rows' AttachmentFiles, trimmed, each once; a successful
\* group has exactly one attachment result per name, in that order, at most
\* one upload to the Bill is issued per name, and dryRun narrates the
\* attachment of as many files as processAll returns attachment results
C31_DistinctFiles ==
  \A i \in GroupedRows :
    (PositionsOf(i) # { } /\ ResultOf(i).status = "success") =>
      LET names == FileNamesOf(BillOf(i))
          list  == ResultOf(i).attachmentResults.list
      IN /\ \A a, b \in 1..Len(names) : names[a] = names[b] => a = b
         /\ \A a \in 1..Len(names) :
              /\ names[a] # << >>
              /\ Trim(names[a]) = names[a]
              /\ \A p \in 1..Len(names[a]) : names[a][p] # ";"
         /\ \A j \in GroupMates(i) :
              \A p \in 1..Len(rows[j + 1].AttachmentFiles) :
                rows[j + 1].AttachmentFiles[p] \notin { ";", " " } =>
                  \E a \in 1..Len(names) :
                    \E q \in 1..Len(names[a]) :
                      names[a][q] = rows[j + 1].AttachmentFiles[p]
         /\ Len(list) = Len(names)
         /\ \A a \in 1..Len(names) : list[a].filename = names[a]
         /\ \A a \in 1..Len(names) :
              Cardinality({ k \in CallsFor(BillOf(i)) :
                              /\ calls[k].op = "uploadAttachment"
                              /\ calls[k].arg.type = "Bill"
                              /\ calls[k].arg.file = names[a] }) <= 1
         /\ dry # NoDry =>
              LET told == { a \in 1..Len(DryOf(i).actions) :
                              DryOf(i).actions[a].act
                                = "Attach files to Bill" }
              IN /\ Len(list) = 0 => told = { }
                 /\ Len(list) > 0 =>
                      /\ Cardinality(told) = 1
                      /\ \A a \in told :
                           DryOf(i).actions[a].count = Len(list)

\* a group of two rows that both name the files a.pdf, b.pdf and c.pdf has
\* succeeded with three attachment results, and dryRun has narrated it
C31_Witness ==
  /\ Done
  /\ dry # NoDry
  /\ Len(rows) = 2
  /\ GroupMates(0) = { 0, 1 }
  /\ rows[1].AttachmentFiles # << >>
  /\ rows[2].AttachmentFiles # << >>
  /\ ResultOf(0).status = "success"
  /\ Len(ResultOf(0).attachmentResults.list) = 3

\* the number of rows in the first k groups
RECURSIVE RowsUpTo(_)
RowsUpTo(k) ==
  IF k = 0 THEN 0 ELSE RowsUpTo(k - 1) + Len(billGroups[k].rows)

\* C32 as stated: when processAll has returned, the progress callback was
\* invoked once per group, with current equal to the number of rows of the
\* groups finished so far and total equal to the number of input rows; the
\* reported current values increase strictly and the last one equals total
C32_Progress ==
  Done =>
    /\ Len(progress) = Len(billGroups)
    /\ \A k \in 1..Len(progress) :
         /\ progress[k].total = Len(rows)
         /\ progress[k].current = RowsUpTo(k)
         /\ k > 1 => progress[k - 1].current < progress[k].current
    /\ progress # << >> => progress[Len(progress)].current = Len(rows)

(***************************************************************************)
(* The catch block of processBillGroup as a function of the value caught.  *)
(***************************************************************************)
\* the first entries a fault object may carry
FaultEntries ==
  { Fault("6000", m, d) : m \in { "", "Business validation error" },
                          d \in { "", "Object not found" } }

\* the values a group may fail with: objects with or without a message, a
\* fault entry and a toString() of their own, and strings
ThrownValues ==
  { [message |-> m, string |-> "", entry |-> e, str |-> s, json |-> "{...}"] :
      m \in { "", "socket hang up" },
      e \in { Undefined } \cup FaultEntries,
      s \in { "[object Object]", "Error" } }
  \cup { [message |-> "", string |-> t, entry |-> Undefined, str |-> t,
          json |-> "\"...\""] : t \in { "timeout" } }

\* processAll has started on a batch and the first call of its first group
\* has thrown
CatchInit ==
  /\ settings = LenientSettings
  /\ qbo = FreshQbo
  /\ processedKeys = { }
  /\ \E batch \in Batches :
       LET nxt == enterGroups(LenientSettings, { }, billGroupsOf(batch), 1,
                    [results |-> loopResults(batch, 0), processedCount |-> 0,
                     progress |-> << >>], Len(batch))
       IN  /\ nxt.pc = "findCustomer"
           /\ rows = batch
           /\ billGroups = billGroupsOf(batch)
           /\ pc = nxt.pc
           /\ gi = nxt.gi
           /\ results = nxt.acc.results
           /\ processedCount = nxt.acc.processedCount
           /\ progress = nxt.acc.progress
  /\ attachments = { }
  /\ loc = NoLoc
  /\ \E error \in ThrownValues :
       call = [NoCall EXCEPT !.op = "findCustomerByName", !.state = "thrown",
                             !.error = error]
  /\ calls = << >>
  /\ faulty = 0
  /\ runs = 1
  /\ firstRun = << >>
  /\ startKeys = { }
  /\ dry = NoDry
  /\ parked = NoContext

\* the group at hand fails with the value thrown: its catch block returns
Catch ==
  /\ pc = "findCustomer"
  /\ CaughtValue(call.error)
  /\ UNCHANGED << qbo, call, calls, faulty >>
  /\ UNCHANGED RunVars

CatchSpec == CatchInit /\ [][Catch]_vars

\* the results of the groups that have failed
CaughtResults ==
  { k \in 1..Len(results) : results[k].rowIndex \in GroupedRows }

\* C33: the error text of a failed group is the message field of the value
\* caught if it is non-empty, else the value itself if it is a string, else
\* the message (or, if absent, the detail) of the first fault entry, else
\* toString() unless that is "[object Object]", else the JSON serialisation
C33_ErrorText ==
  \A k \in CaughtResults :
    LET error == call.error
        text == results[k].error.text
    IN  /\ results[k].status = "error"
        /\ error.message # "" => text = error.message
        /\ (error.message = "" /\ error.string # "") => text = error.string
        /\ (error.message = "" /\ error.string = ""
              /\ error.entry # Undefined) =>
             /\ error.entry.message # "" => text = error.entry.message
             /\ error.entry.message = "" => text = error.entry.detail
        /\ (error.message = "" /\ error.string = ""
              /\ error.entry = Undefined) =>
             /\ error.str # "[object Object]" => text = error.str
             /\ error.str = "[object Object]" => text = error.json

\* a group has failed with a value that has a message and a fault entry with
\* a message of its own
C33_Witness ==
  /\ CaughtResults # { }
  /\ call.error.message # ""
  /\ call.error.entry # Undefined
  /\ call.error.entry.message # ""

\* C34 as stated: whenever the createBill call of a group has returned a
\* Bill, the rows of the group are reported as success with the id of that
\* Bill, so that a group reported as error or needs_review has left no
\* Bill behind
C34_NoBillLeftBehind ==
  Done =>
    \A i \in GroupedRows :
      (\E k \in CallsFor(BillOf(i)) :
         calls[k].op = "createBill" /\ calls[k].result = "returned") =>
        /\ PositionsOf(i) # { }
        /\ ResultOf(i).status = "success"
        /\ \E b \in BillsNumbered(BillOf(i)) :
             qbo.bills[b].Id = ResultOf(i).billId

\* the customer of the external system that has the id `ref`
CustomerAt(ref) ==
  qbo.customers[CHOOSE c \in 1..Len(qbo.customers) :
                  qbo.customers[c].Id = ref]

\* C35 as stated: in a successful group, the customer referenced by each
\* line of the Bill and by the Invoice is a child of the top-level customer
\* resolved for the group
C35_SubCustomerIsChild ==
  \A i \in GroupedRows :
    (PositionsOf(i) # { } /\ ResultOf(i).status = "success") =>
      LET r == ResultOf(i)
      IN  /\ \A b \in 1..Len(qbo.bills) :
               qbo.bills[b].Id = r.billId =>
                 \A j \in 1..Len(qbo.bills[b].doc.Line) :
                   CustomerAt(qbo.bills[b].doc.Line[j].CustomerRef).ParentRef
                     = r.customerId
          /\ \A v \in 1..Len(qbo.invoices) :
               qbo.invoices[v].Id = r.invoiceId =>
                 CustomerAt(qbo.invoices[v].doc.CustomerRef).ParentRef
                   = r.customerId

\* C36: a group that ends with status needs_review has caused no create or
\* upload call: the only external calls made for it are the lookup of its
\* customer and, if that one was found, the lookup of its vendor
C36_NeedsReviewOnlyFinds ==
  \A i \in GroupedRows :
    (PositionsOf(i) # { } /\ ResultOf(i).status = "needs_review") =>
      /\ \A k \in CallsFor(BillOf(i)) :
           /\ calls[k].op \in { "findCustomerByName", "findVendorByName" }
           /\ calls[k].op \notin CreateOps
      /\ Cardinality(CallsFor(BillOf(i))) \in 1..2

\* a group has ended with needs_review on its vendor, after the lookups of
\* its customer and of its vendor
C36_Witness ==
  /\ Done
  /\ \E i \in GroupedRows :
       /\ ResultOf(i).status = "needs_review"
       /\ ResultOf(i).error.kind = "Vendor"
       /\ Cardinality(CallsFor(BillOf(i))) = 2

C38_ErrorTextPresent ==
  \A k \in 1..Len(results) :
    results[k].status \in { "error", "needs_review" } =>
      /\ results[k].error # Undefined
      /\ results[k].error.text # ""

\* the answer to the last attempt of the call in `call`
LastAnswer == call.trace[Len(call.trace)]

\* C39: a find operation answered with fault code 500 returns null: the
\* call is not retried and throws nothing, and processBillGroup goes on as
\* if the entity did not exist (with autoCreate it creates the customer or
\* the vendor); a find operation answered with another fault that is not a
\* rate limit throws, and the rows of its group are reported as error
C39_FindFaults ==
  (call.op \in FindOps /\ call.trace # << >>) =>
    LET bn == calls[call.seq].group
    IN  /\ LastAnswer = NotFoundFault =>
             /\ call.state = "returned"
             /\ call.error = Undefined
             /\ calls[call.seq].result = "returned"
             /\ \A i \in GroupedRows :
                  (BillOf(i) = bn /\ PositionsOf(i) # { }) =>
                    ResultOf(i).status = "needs_review"
             /\ settings.autoCreate =>
                  /\ call.op = "findCustomerByName" =>
                       pc \in { "createCustomer", "createProject" }
                  /\ call.op = "findVendorByName" => pc = "createVendor"
             /\ call.op = "findDepartmentByName" =>
                  pc = "getExpenseAccount" /\ loc.departmentId = Undefined
             /\ call.op = "findClassByName" =>
                  pc \in { "findProject", "createBill" }
        /\ LastAnswer = OtherFault =>
             /\ call.state = "thrown"
             /\ call.error = OtherFault
             /\ \A i \in GroupedRows :
                  BillOf(i) = bn =>
                    /\ PositionsOf(i) # { }
                    /\ ResultOf(i).status = "error"
                    /\ ResultOf(i).error = errorMessage(OtherFault)

\* the lookup of a customer that exists was answered with fault code 500
\* and the customer is about to be created once more
C39_Witness ==
  /\ call.op = "findCustomerByName"
  /\ call.trace = << NotFoundFault >>
  /\ pc = "createCustomer"
  /\ FirstByName(qbo.customers, FirstRow.CustomerName) # Null

(***************************************************************************)
(* Two processAll invocations on one CSVProcessor.  processAll is async:   *)
(* a caller that does not await it can invoke it again while the first     *)
(* invocation is suspended at an await.  Each invocation has its own rows, *)
(* groups, results and locals; settings, processedKeys and the external    *)
(* system are those of the instance.  The code between two awaits runs     *)
(* without interruption; which suspended invocation goes on next depends   *)
(* on the order in which the external calls settle.                        *)
(***************************************************************************)
\* how often a suspended invocation may overtake one that is not finished
MaxSwitches == 1

\* the invocation-local state of the processAll at work, suspended after
\* `n` such switches
Context(n) ==
  [pc |-> pc, rows |-> rows, attachments |-> attachments,
   billGroups |-> billGroups, gi |-> gi, results |-> results,
   processedCount |-> processedCount, progress |-> progress, loc |-> loc,
   call |-> call, switches |-> n]

\* processAll is invoked on the same rows while the first invocation awaits
\* a call: the new invocation runs up to its first await, the first one
\* stays suspended; `calls` goes on as the log of both
Overlap ==
  /\ pc \in DOMAIN Awaited
  /\ parked = NoContext
  /\ runs < MaxRuns
  /\ parked' = Context(0)
  /\ Resume(enterGroups(settings, processedKeys, billGroupsOf(rows), 1,
              [results |-> loopResults(rows, 0), processedCount |-> 0,
               progress |-> << >>], Len(rows)))
  /\ loc' = NoLoc
  /\ runs' = runs + 1
  /\ call' = NoCall
  /\ UNCHANGED << settings, processedKeys, qbo, rows, attachments,
                  billGroups, calls, faulty, firstRun, startKeys, dry >>

\* the call awaited by the suspended invocation settles before the one
\* awaited by the invocation at work, or the invocation at work has
\* returned: the two change places
Switch ==
  /\ parked # NoContext
  /\ parked.pc \in DOMAIN Awaited
  /\ pc = "done" \/ parked.switches < MaxSwitches
  /\ parked' = Context(IF pc = "done" THEN parked.switches
                       ELSE parked.switches + 1)
  /\ pc' = parked.pc
  /\ rows' = parked.rows
  /\ attachments' = parked.attachments
  /\ billGroups' = parked.billGroups
  /\ gi' = parked.gi
  /\ results' = parked.results
  /\ processedCount' = parked.processedCount
  /\ progress' = parked.progress
  /\ loc' = parked.loc
  /\ call' = parked.call
  /\ UNCHANGED << settings, processedKeys, qbo, calls, faulty, runs,
                  firstRun, startKeys, dry >>

\* the external system answers every call at its first attempt
OverlapNext ==
  \/ \E batch \in Batches : processAll(batch, Uploads)
  \/ Overlap
  \/ Switch
  \/ FindCustomer(OkAnswer)
  \/ CreateCustomer(OkAnswer)
  \/ FindVendor(OkAnswer)
  \/ CreateVendor(OkAnswer)
  \/ FindDepartment(OkAnswer)
  \/ GetExpenseAccount(OkAnswer)
  \/ FindProject(OkAnswer)
  \/ CreateProject(OkAnswer)
  \/ FindClass(OkAnswer)
  \/ CreateBill(OkAnswer)
  \/ UploadToBill(OkAnswer)
  \/ CreateInvoice(OkAnswer)
  \/ UploadToInvoice(OkAnswer)

OverlapSpec == Init /\ [][OverlapNext]_vars

\* C40 as stated: when two processAll invocations on one instance overlap,
\* at most one createBill call is issued for a bill number
C40_OneCreateBill ==
  parked # NoContext =>
    \A k \in CallsOf("createBill") :
      \A j \in CallsOf("createBill") :
        calls[j].arg.DocNumber = calls[k].arg.DocNumber => j = k

====
